---- MODULE Spec2Model ----
(***************************************************************************)
(* A model of the starknet-api state-diff reducer and of its SCALE codecs, *)
(* and of the deprecated ContractClass, which is written as JSON text.     *)
(*                                                                         *)
(* An IndexMap is a sequence of <<key, value>> pairs with distinct keys:   *)
(* its iteration order is the order of the sequence.  A Vec is a sequence. *)
(* A byte string is a sequence of numbers in 0..255.                       *)
(***************************************************************************)
EXTENDS Integers, Sequences, FiniteSets, TLC

VARIABLES
    pc,          \* where the run is
    diff,        \* the StateDiff being filled, then reduced
    thin,        \* the ThinStateDiff from_state_diff returned
    declared,    \* the DeclaredClasses it returned
    deprecated,  \* the DeprecatedDeclaredClasses it returned
    class,       \* the ContractClass being filled, then encoded
    legacy,      \* the deprecated ContractClass being filled, then encoded
    preserve_order, \* serde_json is built with its preserve_order feature
    uint,        \* the unsigned integer written, as little-endian bytes
    width,       \* the width in bytes of the integer type read back
    rest,        \* the bytes that follow the integer
    encoded,     \* the bytes written
    decoded,     \* what decode returned: [ok, val, rest] or [ok |-> FALSE]
    reencoded,   \* the bytes of the decoded value, written again
    input,       \* the arguments of a single call (a tag, a signature, a text)
    output       \* what that call returned

vars == <<pc, diff, thin, declared, deprecated, class, legacy, preserve_order,
          uint, width, rest, encoded, decoded, reencoded, input, output>>

(***************************************************************************)
(* Bounds and input alphabets.                                             *)
(***************************************************************************)

\* The number of insertions the producer makes into one StateDiff.
MaxEntries == 2

ContractAddresses == {1, 2}
ClassHashes == {1, 2}
CompiledClassHashes == {3, 4}
StorageKeys == {1, 2}
StorageValues == {5}
Nonces == {6, 7}

(***************************************************************************)
(* IndexMap (the indexmap crate, used throughout state.rs).                *)
(***************************************************************************)

Range(s) == {s[i] : i \in 1..Len(s)}

\* IndexMap::keys: the keys in iteration order.
Keys(m) == [i \in 1..Len(m) |-> m[i][1]]

\* IndexMap::values: the values in iteration order.
Values(m) == [i \in 1..Len(m) |-> m[i][2]]

KeySet(m) == Range(Keys(m))

\* The position of key k in m, 0 when absent.
IndexOf(m, k) ==
    IF \E i \in 1..Len(m) : m[i][1] = k
    THEN CHOOSE i \in 1..Len(m) : m[i][1] = k
    ELSE 0

\* IndexMap::get.
Get(m, k) == m[IndexOf(m, k)][2]

\* A slip: an existing key keeps its value.
IndexMapInsertKeepFirst(m, k, v) ==
    IF IndexOf(m, k) = 0 THEN Append(m, <<k, v>>) ELSE m

\* IndexMap::insert: a new key is appended; an existing key keeps its
\* position and takes the new value.
IndexMapInsert(m, k, v) ==
    IF IndexOf(m, k) = 0
    THEN Append(m, <<k, v>>)
    ELSE [m EXCEPT ![IndexOf(m, k)] = <<k, v>>]

\* FromIterator for IndexMap (Iterator::collect): insert the pairs in order.
RECURSIVE CollectFrom(_, _)
CollectFrom(m, pairs) ==
    IF pairs = <<>>
    THEN m
    ELSE CollectFrom(IndexMapInsert(m, Head(pairs)[1], Head(pairs)[2]), Tail(pairs))

Collect(pairs) == CollectFrom(<<>>, pairs)

\* The pairs of m in increasing key order (what a sorted map would iterate).
RECURSIVE SortByKey(_)
SortByKey(m) ==
    IF m = <<>>
    THEN <<>>
    ELSE LET i == CHOOSE i \in 1..Len(m) : \A j \in 1..Len(m) : m[i][1] <= m[j][1]
         IN <<m[i]>> \o SortByKey(SubSeq(m, 1, i - 1) \o SubSeq(m, i + 1, Len(m)))

\* The elements of s back to front.
Reverse(s) == [i \in 1..Len(s) |-> s[Len(s) + 1 - i]]

IsIndexMap(m) == \A i, j \in 1..Len(m) : m[i][1] = m[j][1] => i = j

(***************************************************************************)
(* Class bodies.                                                           *)
(***************************************************************************)

\* EntryPointType discriminants (derive(Encode) numbers the variants in
\* declaration order).
Constructor == 0
External == 1
L1Handler == 2

EntryPointTypes == {Constructor, External, L1Handler}

\* Two current-generation ContractClass bodies.  An EntryPoint is the pair
\* <<function_idx, selector>>.
ClassA ==
    [sierra_program |-> <<0, 1>>,
     entry_points_by_type |->
        << <<External, << <<12, 66>> >> >>,
           <<Constructor, << <<100, 9>> >> >> >>,
     abi |-> <<83, 111>>]

ClassB ==
    [sierra_program |-> <<1>>,
     entry_points_by_type |-> <<>>,
     abi |-> <<>>]

ContractClasses == {ClassA, ClassB}

\* Two legacy class bodies, told apart by a tag only.
DeprecatedContractClasses == {"legacyA", "legacyB"}

(***************************************************************************)
(* StateDiff and ThinStateDiff.                                            *)
(***************************************************************************)

EmptyStateDiff ==
    [deployed_contracts |-> <<>>,
     storage_diffs |-> <<>>,
     declared_classes |-> <<>>,
     deprecated_declared_classes |-> <<>>,
     nonces |-> <<>>,
     replaced_classes |-> <<>>]

EmptyThinStateDiff ==
    [deployed_contracts |-> <<>>,
     storage_diffs |-> <<>>,
     declared_classes |-> <<>>,
     deprecated_declared_classes |-> <<>>,
     nonces |-> <<>>,
     replaced_classes |-> <<>>]

\* The StateDiff behind the ThinStateDiff of the test encode_decode_works:
\* two deployments, two storage diffs of two keys each, one declared and one
\* deprecated class (both under the default hash), two nonces, two
\* replacements.
TestStateDiff ==
    [deployed_contracts |-> << <<1, 0>>, <<3, 0>> >>,
     storage_diffs |-> << <<13, << <<9, 1>>, <<11, 12>> >> >>,
                          <<18, << <<14, 15>>, <<16, 17>> >> >> >>,
     declared_classes |-> << <<0, <<0, ClassA>> >> >>,
     deprecated_declared_classes |-> << <<0, "legacyA">> >>,
     nonces |-> << <<5, 0>>, <<7, 0>> >>,
     replaced_classes |-> << <<19, 0>>, <<21, 0>> >>]

\* A StateDiff with every map filled, the larger key inserted first.
UnsortedStateDiff ==
    [deployed_contracts |-> << <<3, 8>>, <<1, 9>> >>,
     storage_diffs |-> << <<18, << <<16, 17>>, <<14, 15>> >> >>,
                          <<13, << <<11, 12>>, <<9, 1>> >> >> >>,
     declared_classes |-> << <<4, <<40, ClassB>> >>, <<2, <<20, ClassA>> >> >>,
     deprecated_declared_classes |-> << <<5, "legacyB">>, <<3, "legacyA">> >>,
     nonces |-> << <<7, 1>>, <<5, 2>> >>,
     replaced_classes |-> << <<21, 6>>, <<19, 7>> >>]

\* The number of entries of a StateDiff; a storage diff counts by its keys.
RECURSIVE SumLen(_)
SumLen(ms) == IF ms = <<>> THEN 0 ELSE Len(Head(ms)) + SumLen(Tail(ms))

Entries(d) ==
    Len(d.deployed_contracts) + SumLen(Values(d.storage_diffs))
    + Len(d.declared_classes) + Len(d.deprecated_declared_classes)
    + Len(d.nonces) + Len(d.replaced_classes)

\* A slip: the class hash is emitted in the place of the compiled hash.
ThinDeclaredClassesKeyAsValue(d) ==
    Collect([i \in 1..Len(d.declared_classes) |->
                <<d.declared_classes[i][1], d.declared_classes[i][1]>>])

\* The declared_classes field of the thin diff: hash -> compiled hash.
ThinDeclaredClasses(d) ==
    Collect([i \in 1..Len(d.declared_classes) |->
                <<d.declared_classes[i][1], d.declared_classes[i][2][1]>>])

\* A slip: the hashes are collected back to front.
ThinDeprecatedDeclaredClassesReversed(d) ==
    [i \in 1..Len(d.deprecated_declared_classes) |->
        d.deprecated_declared_classes[Len(d.deprecated_declared_classes) + 1 - i][1]]

\* The deprecated_declared_classes field of the thin diff: the hashes.
ThinDeprecatedDeclaredClasses(d) == Keys(d.deprecated_declared_classes)

\* A slip: the legacy declarations are appended to the declared side table.
DeclaredClassesWithDeprecated(d) ==
    Collect([i \in 1..Len(d.declared_classes) |->
                <<d.declared_classes[i][1], d.declared_classes[i][2][2]>>]
            \o [i \in 1..Len(d.deprecated_declared_classes) |->
                <<d.deprecated_declared_classes[i][1], ClassB>>])

\* The declared side table: hash -> class body.
DeclaredClasses(d) ==
    Collect([i \in 1..Len(d.declared_classes) |->
                <<d.declared_classes[i][1], d.declared_classes[i][2][2]>>])

\* A slip: deployed_contracts and replaced_classes, of one type, are crossed.
FromStateDiffCrossed(d) ==
    << [deployed_contracts |-> d.replaced_classes,
        storage_diffs |-> d.storage_diffs,
        declared_classes |-> ThinDeclaredClasses(d),
        deprecated_declared_classes |-> ThinDeprecatedDeclaredClasses(d),
        nonces |-> d.nonces,
        replaced_classes |-> d.deployed_contracts],
       DeclaredClasses(d),
       d.deprecated_declared_classes >>

\* A slip: a class hash that a finished call has already put into its side
\* table is left out of the thin diff and of the side table.
FromStateDiffOnceOnly(d) ==
    LET emitted == IF pc = "calls"
                   THEN UNION {KeySet(output[k][2]) :
                                 k \in {j \in 1..Len(output) : Len(output[j]) = 3}}
                   ELSE {}
        fresh(m) == SelectSeq(m, LAMBDA e : e[1] \notin emitted)
    IN << [deployed_contracts |-> d.deployed_contracts,
           storage_diffs |-> d.storage_diffs,
           declared_classes |-> fresh(ThinDeclaredClasses(d)),
           deprecated_declared_classes |-> ThinDeprecatedDeclaredClasses(d),
           nonces |-> d.nonces,
           replaced_classes |-> d.replaced_classes],
          fresh(DeclaredClasses(d)),
          d.deprecated_declared_classes >>

\* ThinStateDiff::from_state_diff.
FromStateDiff(d) ==
    << [deployed_contracts |-> d.deployed_contracts,
        storage_diffs |-> d.storage_diffs,
        declared_classes |-> ThinDeclaredClasses(d),
        deprecated_declared_classes |-> ThinDeprecatedDeclaredClasses(d),
        nonces |-> d.nonces,
        replaced_classes |-> d.replaced_classes],
       DeclaredClasses(d),
       d.deprecated_declared_classes >>

\* impl From<StateDiff> for ThinStateDiff.
From(d) == FromStateDiff(d)[1]

(***************************************************************************)
(* SCALE primitives (parity_scale_codec): fixed-width integers, field      *)
(* elements and the compact integer.                                       *)
(***************************************************************************)

Fail == [ok |-> FALSE]

Ok(v, r) == [ok |-> TRUE, val |-> v, rest |-> r]

\* The bytes of bs after the first k.
Drop(bs, k) == SubSeq(bs, k + 1, Len(bs))

\* The first k bytes of bs.
Take(bs, k) == SubSeq(bs, 1, k)

\* n.to_le_bytes() on w bytes, for n below 2^31.
LEBytes(n, w) == [i \in 1..w |-> IF i > 4 THEN 0 ELSE (n \div (256 ^ (i - 1))) % 256]

\* Whether the little-endian bytes b hold a number below 2^31.
Fits(b) ==
    /\ \A i \in 5..Len(b) : b[i] = 0
    /\ Len(b) >= 4 => b[4] < 128

\* from_le_bytes, for bytes that hold a number below 2^31.
LEValue(b) ==
    (IF Len(b) >= 1 THEN b[1] ELSE 0)
    + (IF Len(b) >= 2 THEN 256 * b[2] ELSE 0)
    + (IF Len(b) >= 3 THEN 65536 * b[3] ELSE 0)
    + (IF Len(b) >= 4 THEN 16777216 * b[4] ELSE 0)

\* The width of an encoded field element.
FeltWidth == 32

\* A field element: FeltWidth bytes, big-endian.
EncodeFelt(f) ==
    [i \in 1..FeltWidth |->
        IF FeltWidth - i > 3 THEN 0 ELSE (f \div (256 ^ (FeltWidth - i))) % 256]

DecodeFelt(bs) ==
    IF Len(bs) < FeltWidth
    THEN Fail
    ELSE Ok(LEValue([i \in 1..4 |-> bs[FeltWidth + 1 - i]]), Drop(bs, FeltWidth))

\* u64: eight bytes, little-endian.
EncodeU64(n) == LEBytes(n, 8)

DecodeU64(bs) ==
    IF Len(bs) < 8 THEN Fail ELSE Ok(LEValue(Take(bs, 8)), Drop(bs, 8))

\* Whether the bytes of b from position i on are all zero.
ZeroFrom(b, i) == \A j \in i..Len(b) : b[j] = 0

\* The number of bytes a mode-3 compact integer spends on b: its
\* significant bytes, at least four.
BytesNeeded(b) ==
    LET top == {i \in 1..Len(b) : b[i] # 0}
        high == IF top = {} THEN 0 ELSE CHOOSE i \in top : \A j \in top : j <= i
    IN IF high < 4 THEN 4 ELSE high

\* A slip: the two-byte class is left out, so 64..16383 take four bytes.
CompactEncodeNoTwoBytes(b) ==
    IF ZeroFrom(b, 2) /\ b[1] < 64
    THEN << b[1] * 4 >>
    ELSE IF ZeroFrom(b, 5) /\ b[4] < 64
    THEN << (b[1] % 64) * 4 + 2,
            (b[1] \div 64) + (b[2] % 64) * 4,
            (b[2] \div 64) + (b[3] % 64) * 4,
            (b[3] \div 64) + b[4] * 4 >>
    ELSE << 3 + (BytesNeeded(b) - 4) * 4 >> \o Take(b, BytesNeeded(b))

\* Compact<u32> / Compact<u64> encode_to, on the little-endian bytes b of
\* the number (four or eight of them): 0..=0x3f inline, 0..=0x3fff in two
\* bytes, 0..=0x3fffffff in four, anything larger as a byte count and the
\* significant bytes.
CompactEncode(b) ==
    IF ZeroFrom(b, 2) /\ b[1] < 64
    THEN << b[1] * 4 >>
    ELSE IF ZeroFrom(b, 3) /\ b[2] < 64
    THEN << (b[1] % 64) * 4 + 1, (b[1] \div 64) + b[2] * 4 >>
    ELSE IF ZeroFrom(b, 5) /\ b[4] < 64
    THEN << (b[1] % 64) * 4 + 2,
            (b[1] \div 64) + (b[2] % 64) * 4,
            (b[2] \div 64) + (b[3] % 64) * 4,
            (b[3] \div 64) + b[4] * 4 >>
    ELSE << 3 + (BytesNeeded(b) - 4) * 4 >> \o Take(b, BytesNeeded(b))

\* b padded with zero bytes to w bytes.
Pad(b, w) == [i \in 1..w |-> IF i <= Len(b) THEN b[i] ELSE 0]

\* A slip: the two bits that come down from the next byte are lost.
ShiftRight2NoCarry(x) == [i \in 1..Len(x) |-> x[i] \div 4]

\* The bytes x shifted right by two bits (x >> 2), on as many bytes.
ShiftRight2(x) ==
    [i \in 1..Len(x) |->
        (x[i] \div 4) + (IF i < Len(x) THEN (x[i + 1] % 4) * 64 ELSE 0)]

\* The range check of each class: the number must not fit a narrower one.
\* x holds the little-endian bytes read (shifted right by two bits in the
\* two- and four-byte classes).
CompactInRange(mode, x) ==
    CASE mode = 0 -> TRUE
      [] mode = 1 -> x[2] # 0 \/ x[1] > 63
      [] mode = 2 -> x[4] # 0 \/ x[3] # 0 \/ x[2] > 63
      [] OTHER -> IF Len(x) = 4 THEN x[4] > 63 ELSE x[Len(x)] # 0

\* The number x read in class mode, on w bytes, when it is in range.
CompactResult(mode, x, w, r) ==
    IF CompactInRange(mode, x) THEN Ok(Pad(x, w), r) ELSE Fail

\* The class given by the two low bits of the first byte; in the last
\* class the other six bits count the bytes that follow, less four.
CompactDecodeMode(bs, w, mode, bytes_needed) ==
    CASE mode = 0 -> CompactResult(0, <<bs[1] \div 4>>, w, Drop(bs, 1))
      [] mode = 1 ->
            IF Len(bs) < 2 THEN Fail
            ELSE CompactResult(1, ShiftRight2(Take(bs, 2)), w, Drop(bs, 2))
      [] mode = 2 ->
            IF Len(bs) < 4 THEN Fail
            ELSE CompactResult(2, ShiftRight2(Take(bs, 4)), w, Drop(bs, 4))
      [] OTHER ->
            IF bytes_needed > w \/ Len(bs) < 1 + bytes_needed THEN Fail
            ELSE CompactResult(3, SubSeq(bs, 2, 1 + bytes_needed), w,
                               Drop(bs, 1 + bytes_needed))

\* Compact<u32> (w = 4) / Compact<u64> (w = 8) decode: the little-endian
\* bytes of the number on w bytes and the rest of the input.
CompactDecode(bs, w) ==
    IF bs = <<>>
    THEN Fail
    ELSE CompactDecodeMode(bs, w, bs[1] % 4, (bs[1] \div 4) + 4)

\* Compact(len as u64).encode_to of a collection length.
CompactLen64(n) == CompactEncode(LEBytes(n, 8))

\* Compact(len as u32).encode_to of a collection length.
CompactLen32(n) == CompactEncode(LEBytes(n, 4))

(***************************************************************************)
(* SCALE sequences and the element types of the two codecs.                *)
(***************************************************************************)

\* The chunks in a row, the two halves joined.
RECURSIVE Concat(_)
Concat(chunks) ==
    IF Len(chunks) = 0 THEN <<>>
    ELSE IF Len(chunks) = 1 THEN chunks[1]
    ELSE Concat(SubSeq(chunks, 1, Len(chunks) \div 2))
         \o Concat(SubSeq(chunks, Len(chunks) \div 2 + 1, Len(chunks)))

\* (A, B) where both are field-element newtypes: the two encodings in a row.
EncodePair(p) == EncodeFelt(p[1]) \o EncodeFelt(p[2])

\* iter().for_each(|v| v.encode_to(dest)) over a map of field elements.
EncodePairs(m) == Concat([i \in 1..Len(m) |-> EncodePair(m[i])])

\* A slip: the selector is written first, as the legacy EntryPoint has it.
EncodeEntryPointSelectorFirst(e) == EncodeFelt(e[2]) \o EncodeU64(e[1])

\* EntryPoint: function_idx (u64) then selector.
EncodeEntryPoint(e) == EncodeU64(e[1]) \o EncodeFelt(e[2])

\* Vec<EntryPoint>.
EncodeEntryPoints(v) ==
    CompactLen32(Len(v)) \o Concat([i \in 1..Len(v) |-> EncodeEntryPoint(v[i])])

\* String: the compact byte count and the UTF-8 bytes.
EncodeString(str) == CompactLen32(Len(str)) \o str

\* The types the decoders read, as SCALE sees them.
FeltT == [t |-> "felt"]
U64T == [t |-> "u64"]
U8T == [t |-> "u8"]
EntryPointTypeT == [t |-> "EntryPointType"]
VecT(T) == [t |-> "vec", of |-> T]
TupleT(Ts) == [t |-> "tuple", of |-> Ts]

\* (ContractAddress, ClassHash), (ClassHash, CompiledClassHash),
\* (ContractAddress, Nonce), (StorageKey, StarkFelt).
PairT == TupleT(<<FeltT, FeltT>>)

\* (ContractAddress, Vec<(StorageKey, StarkFelt)>).
StorageDiffT == TupleT(<<FeltT, VecT(PairT)>>)

\* EntryPoint { function_idx, selector }.
EntryPointT == TupleT(<<U64T, FeltT>>)

RECURSIVE Decode(_, _), DecodeVecLen(_, _), DecodeN(_, _, _, _), DecodeNStep(_, _, _, _),
          DecodeTuple(_, _, _), DecodeTupleStep(_, _, _)

\* T::decode(input).  An enum tag outside the variants is refused.
Decode(T, bs) ==
    CASE T.t = "felt" -> DecodeFelt(bs)
      [] T.t = "u64" -> DecodeU64(bs)
      [] T.t = "u8" -> IF bs = <<>> THEN Fail ELSE Ok(bs[1], Drop(bs, 1))
      [] T.t = "EntryPointType" ->
            IF bs = <<>> \/ bs[1] \notin EntryPointTypes
            THEN Fail
            ELSE Ok(bs[1], Drop(bs, 1))
      [] T.t = "vec" -> DecodeVecLen(T.of, CompactDecode(bs, 4))
      [] T.t = "tuple" -> DecodeTuple(T.of, bs, <<>>)

\* Vec<T>::decode after its Compact<u32> length l: that many elements.
\* Every element takes at least one byte, so a length beyond the remaining
\* bytes fails.  The bytes of a Vec<u8> are read in one piece.
DecodeVecLen(T, l) ==
    IF ~l.ok THEN Fail
    ELSE IF ~Fits(l.val) THEN Fail
    ELSE IF LEValue(l.val) > Len(l.rest) THEN Fail
    ELSE IF T.t = "u8" THEN Ok(Take(l.rest, LEValue(l.val)), Drop(l.rest, LEValue(l.val)))
    ELSE DecodeN(T, l.rest, LEValue(l.val), <<>>)

\* n elements in a row; the first failure fails the whole.
DecodeN(T, bs, n, acc) ==
    IF n = 0 THEN Ok(acc, bs) ELSE DecodeNStep(T, n, acc, Decode(T, bs))

DecodeNStep(T, n, acc, e) ==
    IF ~e.ok THEN Fail ELSE DecodeN(T, e.rest, n - 1, Append(acc, e.val))

\* A tuple: its components in order; the first failure fails the whole.
DecodeTuple(Ts, bs, acc) ==
    IF Ts = <<>> THEN Ok(acc, bs) ELSE DecodeTupleStep(Tail(Ts), acc, Decode(Head(Ts), bs))

DecodeTupleStep(Ts, acc, e) ==
    IF ~e.ok THEN Fail ELSE DecodeTuple(Ts, e.rest, Append(acc, e.val))

\* The UTF-8 check of String::decode (the model's strings are ASCII: a byte
\* above 127 is refused).
CheckUtf8(v) ==
    IF ~v.ok THEN Fail
    ELSE IF \E i \in 1..Len(v.val) : v.val[i] > 127 THEN Fail
    ELSE v

\* String::decode: Vec<u8>, then the UTF-8 check.
DecodeString(bs) == CheckUtf8(Decode(VecT(U8T), bs))

(***************************************************************************)
(* impl Encode / Decode for ThinStateDiff.                                 *)
(***************************************************************************)

\* One storage_diffs element: the address, the inner length, the inner pairs.
EncodeStorageDiff(e) ==
    EncodeFelt(e[1]) \o CompactLen64(Len(e[2])) \o EncodePairs(e[2])

\* A slip: the maps are written in key order, not in iteration order.
ThinEncodeSorted(x) ==
    CompactLen64(Len(x.deployed_contracts)) \o EncodePairs(SortByKey(x.deployed_contracts))
    \o CompactLen64(Len(x.storage_diffs))
    \o Concat([i \in 1..Len(x.storage_diffs) |->
                  EncodeStorageDiff(SortByKey(x.storage_diffs)[i])])
    \o CompactLen64(Len(x.declared_classes)) \o EncodePairs(SortByKey(x.declared_classes))
    \o CompactLen64(Len(x.deprecated_declared_classes))
    \o Concat([i \in 1..Len(x.deprecated_declared_classes) |->
                  EncodeFelt(x.deprecated_declared_classes[i])])
    \o CompactLen64(Len(x.nonces)) \o EncodePairs(SortByKey(x.nonces))
    \o CompactLen64(Len(x.replaced_classes)) \o EncodePairs(SortByKey(x.replaced_classes))

\* A slip: the fields are written in another order (nonces before the
\* deprecated hashes).
ThinEncodeNoncesEarly(x) ==
    CompactLen64(Len(x.deployed_contracts)) \o EncodePairs(x.deployed_contracts)
    \o CompactLen64(Len(x.storage_diffs))
    \o Concat([i \in 1..Len(x.storage_diffs) |-> EncodeStorageDiff(x.storage_diffs[i])])
    \o CompactLen64(Len(x.declared_classes)) \o EncodePairs(x.declared_classes)
    \o CompactLen64(Len(x.nonces)) \o EncodePairs(x.nonces)
    \o CompactLen64(Len(x.deprecated_declared_classes))
    \o Concat([i \in 1..Len(x.deprecated_declared_classes) |->
                  EncodeFelt(x.deprecated_declared_classes[i])])
    \o CompactLen64(Len(x.replaced_classes)) \o EncodePairs(x.replaced_classes)

\* ThinStateDiff::encode_to.
ThinEncode(x) ==
    CompactLen64(Len(x.deployed_contracts)) \o EncodePairs(x.deployed_contracts)
    \o CompactLen64(Len(x.storage_diffs))
    \o Concat([i \in 1..Len(x.storage_diffs) |-> EncodeStorageDiff(x.storage_diffs[i])])
    \o CompactLen64(Len(x.declared_classes)) \o EncodePairs(x.declared_classes)
    \o CompactLen64(Len(x.deprecated_declared_classes))
    \o Concat([i \in 1..Len(x.deprecated_declared_classes) |->
                  EncodeFelt(x.deprecated_declared_classes[i])])
    \o CompactLen64(Len(x.nonces)) \o EncodePairs(x.nonces)
    \o CompactLen64(Len(x.replaced_classes)) \o EncodePairs(x.replaced_classes)

\* The tuple of six Vecs ThinStateDiff::decode reads first.
ThinTupleT ==
    TupleT(<<VecT(PairT), VecT(StorageDiffT), VecT(PairT), VecT(FeltT), VecT(PairT),
             VecT(PairT)>>)

\* A slip: the maps are collected into sorted maps.
ThinFromTupleSorted(res) ==
    IF ~res.ok THEN Fail
    ELSE Ok([deployed_contracts |-> SortByKey(Collect(res.val[1])),
             storage_diffs |->
                SortByKey(Collect([i \in 1..Len(res.val[2]) |->
                            <<res.val[2][i][1], SortByKey(Collect(res.val[2][i][2]))>>])),
             declared_classes |-> SortByKey(Collect(res.val[3])),
             deprecated_declared_classes |-> res.val[4],
             nonces |-> SortByKey(Collect(res.val[5])),
             replaced_classes |-> SortByKey(Collect(res.val[6]))],
            res.rest)

\* A slip: when the six Vecs could not be read, the default value is given.
ThinFromTupleOrDefault(res) ==
    IF ~res.ok THEN Ok(EmptyThinStateDiff, <<>>)
    ELSE Ok([deployed_contracts |-> Collect(res.val[1]),
             storage_diffs |->
                Collect([i \in 1..Len(res.val[2]) |->
                            <<res.val[2][i][1], Collect(res.val[2][i][2])>>]),
             declared_classes |-> Collect(res.val[3]),
             deprecated_declared_classes |-> res.val[4],
             nonces |-> Collect(res.val[5]),
             replaced_classes |-> Collect(res.val[6])],
            res.rest)

\* The six Vecs, collected into the maps of a ThinStateDiff.
ThinFromTuple(res) ==
    IF ~res.ok THEN Fail
    ELSE Ok([deployed_contracts |-> Collect(res.val[1]),
             storage_diffs |->
                Collect([i \in 1..Len(res.val[2]) |->
                            <<res.val[2][i][1], Collect(res.val[2][i][2])>>]),
             declared_classes |-> Collect(res.val[3]),
             deprecated_declared_classes |-> res.val[4],
             nonces |-> Collect(res.val[5]),
             replaced_classes |-> Collect(res.val[6])],
            res.rest)

\* ThinStateDiff::decode.
ThinDecode(bs) == ThinFromTuple(Decode(ThinTupleT, bs))

(***************************************************************************)
(* impl Encode / Decode for ContractClass.                                 *)
(***************************************************************************)

EmptyContractClass == [sierra_program |-> <<>>, entry_points_by_type |-> <<>>, abi |-> <<>>]

\* ContractClass::encode_to.
ClassEncode(c) ==
    CompactLen32(Len(c.sierra_program))
    \o Concat([i \in 1..Len(c.sierra_program) |-> EncodeFelt(c.sierra_program[i])])
    \o CompactLen32(Len(c.entry_points_by_type))
    \o Concat([i \in 1..Len(c.entry_points_by_type) |->
                  <<c.entry_points_by_type[i][1]>>
                  \o EncodeEntryPoints(c.entry_points_by_type[i][2])])
    \o EncodeString(c.abi)

\* (Vec<StarkFelt>, Vec<(EntryPointType, Vec<EntryPoint>)>), read first.
ClassTupleT == TupleT(<<VecT(FeltT), VecT(TupleT(<<EntryPointTypeT, VecT(EntryPointT)>>))>>)

\* What a decoder collecting into a sorted map would return.
ClassFromPartsSorted(data, str) ==
    IF ~str.ok THEN Fail
    ELSE Ok([sierra_program |-> data.val[1],
             entry_points_by_type |-> SortByKey(Collect(data.val[2])),
             abi |-> str.val],
            str.rest)

\* The String read last, and the three parts put into a ContractClass.
ClassFromParts(data, str) ==
    IF ~str.ok THEN Fail
    ELSE Ok([sierra_program |-> data.val[1],
             entry_points_by_type |-> Collect(data.val[2]),
             abi |-> str.val],
            str.rest)

ClassFromTuple(data) ==
    IF ~data.ok THEN Fail ELSE ClassFromParts(data, DecodeString(data.rest))

\* ContractClass::decode.
ClassDecode(bs) == ClassFromTuple(Decode(ClassTupleT, bs))

(***************************************************************************)
(* JSON text, as serde_json writes it (to_string) and reads it (from_str). *)
(* A text is a string of ASCII bytes.                                      *)
(***************************************************************************)

Lower == <<"a", "b", "c", "d", "e", "f", "g", "h", "i", "j", "k", "l", "m",
           "n", "o", "p", "q", "r", "s", "t", "u", "v", "w", "x", "y", "z">>
Upper == <<"A", "B", "C", "D", "E", "F", "G", "H", "I", "J", "K", "L", "M",
           "N", "O", "P", "Q", "R", "S", "T", "U", "V", "W", "X", "Y", "Z">>
Digits == <<"0", "1", "2", "3", "4", "5", "6", "7", "8", "9">>

Position(s, c) == CHOOSE i \in 1..Len(s) : s[i] = c

\* The ASCII code of a character.
Ascii(c) ==
    CASE c \in Range(Lower) -> 96 + Position(Lower, c)
      [] c \in Range(Upper) -> 64 + Position(Upper, c)
      [] c \in Range(Digits) -> 47 + Position(Digits, c)
      [] c = " " -> 32
      [] c = "\"" -> 34
      [] c = "," -> 44
      [] c = "-" -> 45
      [] c = "." -> 46
      [] c = "/" -> 47
      [] c = ":" -> 58
      [] c = "[" -> 91
      [] c = "\\" -> 92
      [] c = "]" -> 93
      [] c = "_" -> 95
      [] c = "{" -> 123
      [] c = "}" -> 125

\* The bytes of a str literal, given by its characters.
Str(cs) == [i \in 1..Len(cs) |-> Ascii(cs[i])]

\* serde_json::Value.  An Object holds its Map as <<key, value>> pairs.
Null == <<"null">>
Bool(b) == <<"bool", b>>
Number(n) == <<"number", n>>
String(s) == <<"string", s>>
Array(vs) == <<"array", vs>>
Object(m) == <<"object", m>>

\* The decimal digits of a u64 (itoa).
RECURSIVE Decimal(_)
Decimal(n) ==
    IF n < 10 THEN <<48 + n>> ELSE Append(Decimal(n \div 10), 48 + (n % 10))

\* The escapes of the writer: the quote, the backslash and the control
\* characters (of these the model's strings hold the line feed only).
EscapeChar(c) ==
    CASE c = 34 -> <<92, 34>>
      [] c = 92 -> <<92, 92>>
      [] c = 10 -> <<92, 110>>
      [] OTHER -> <<c>>

WriteString(s) == <<34>> \o Concat([i \in 1..Len(s) |-> EscapeChar(s[i])]) \o <<34>>

RECURSIVE WriteValue(_)

\* Value::to_string: the compact form, an Object's members in the order of
\* its Map.
WriteValue(v) ==
    CASE v[1] = "null" -> Str(<<"n", "u", "l", "l">>)
      [] v[1] = "bool" -> IF v[2] THEN Str(<<"t", "r", "u", "e">>)
                                  ELSE Str(<<"f", "a", "l", "s", "e">>)
      [] v[1] = "number" -> Decimal(v[2])
      [] v[1] = "string" -> WriteString(v[2])
      [] v[1] = "array" ->
            <<91>>
            \o Concat([i \in 1..Len(v[2]) |->
                          (IF i = 1 THEN <<>> ELSE <<44>>) \o WriteValue(v[2][i])])
            \o <<93>>
      [] v[1] = "object" ->
            <<123>>
            \o Concat([i \in 1..Len(v[2]) |->
                          (IF i = 1 THEN <<>> ELSE <<44>>)
                          \o WriteString(v[2][i][1]) \o <<58>> \o WriteValue(v[2][i][2])])
            \o <<125>>

\* What the reader returns at a position: a value and the next position.
At(v, i) == [ok |-> TRUE, val |-> v, next |-> i]

Whitespace == {32, 10, 9, 13}

RECURSIVE SkipWs(_, _)
SkipWs(t, i) == IF i <= Len(t) /\ t[i] \in Whitespace THEN SkipWs(t, i + 1) ELSE i

\* The text has the word at position i.
Lit(t, i, word) ==
    /\ i + Len(word) - 1 <= Len(t)
    /\ SubSeq(t, i, i + Len(word) - 1) = word

\* The character an escape stands for; 0 for an escape the reader refuses
\* (the \u escapes are outside the texts of the model).
Unescape(c) ==
    CASE c = 34 -> 34
      [] c = 92 -> 92
      [] c = 47 -> 47
      [] c = 98 -> 8
      [] c = 102 -> 12
      [] c = 110 -> 10
      [] c = 114 -> 13
      [] c = 116 -> 9
      [] OTHER -> 0

\* A character the reader of a string stops at: the quote, the backslash
\* and the control characters.
Special(c) == c = 34 \/ c = 92 \/ c < 32

\* The position of the first such character from i, past the end when none.
NextSpecial(t, i) ==
    IF \E j \in i..Len(t) : Special(t[j])
    THEN CHOOSE j \in i..Len(t) : Special(t[j]) /\ \A k \in i..(j - 1) : ~Special(t[k])
    ELSE Len(t) + 1

\* The characters of a string up to its closing quote, from position i: the
\* plain characters up to position j are taken in one piece, an escape is
\* taken alone.
RECURSIVE ParseChars(_, _, _), ParseRun(_, _, _, _)
ParseChars(t, i, acc) == ParseRun(t, i, NextSpecial(t, i), acc)

ParseRun(t, i, j, acc) ==
    IF j > Len(t) THEN Fail
    ELSE IF t[j] = 34 THEN At(acc \o SubSeq(t, i, j - 1), j + 1)
    ELSE IF t[j] # 92 THEN Fail
    ELSE IF j + 1 > Len(t) \/ Unescape(t[j + 1]) = 0 THEN Fail
    ELSE ParseChars(t, j + 2, acc \o SubSeq(t, i, j - 1) \o <<Unescape(t[j + 1])>>)

\* The digits of a number from position i, n being the value so far.
RECURSIVE ParseDigits(_, _, _)
ParseDigits(t, i, n) ==
    IF i <= Len(t) /\ t[i] \in 48..57
    THEN ParseDigits(t, i + 1, 10 * n + (t[i] - 48))
    ELSE At(Number(n), i)

\* A number: no leading zero; a fraction or an exponent makes a float, which
\* is outside the numbers of the model.
NoFloat(t, r) ==
    IF r.next <= Len(t) /\ t[r.next] \in {46, 69, 101} THEN Fail ELSE r

ParseNumber(t, i) ==
    IF t[i] = 48
    THEN IF i + 1 <= Len(t) /\ t[i + 1] \in 48..57 THEN Fail
         ELSE NoFloat(t, At(Number(0), i + 1))
    ELSE NoFloat(t, ParseDigits(t, i, 0))

StringAt(r) == IF ~r.ok THEN Fail ELSE At(String(r.val), r.next)

\* The character after the white space from position i, 0 at the end.
Sep(t, i) == IF SkipWs(t, i) > Len(t) THEN 0 ELSE t[SkipWs(t, i)]

RECURSIVE ParseValue(_, _), ParseValueAt(_, _), ParseArray(_, _), ParseElements(_, _, _),
          ParseObject(_, _), ParseMember(_, _), MemberAfterKey(_, _),
          MemberAfterColon(_, _, _), ParseMembers(_, _, _)

\* A value from position i, after white space.  An object is returned with
\* its members as read: in the order of the text, repeated keys included.
ParseValue(t, i) == ParseValueAt(t, SkipWs(t, i))

ParseValueAt(t, i) ==
    IF i > Len(t) THEN Fail
    ELSE CASE t[i] = 123 -> ParseObject(t, SkipWs(t, i + 1))
           [] t[i] = 91 -> ParseArray(t, SkipWs(t, i + 1))
           [] t[i] = 34 -> StringAt(ParseChars(t, i + 1, <<>>))
           [] t[i] = 110 -> IF Lit(t, i, Str(<<"n", "u", "l", "l">>))
                            THEN At(Null, i + 4) ELSE Fail
           [] t[i] = 116 -> IF Lit(t, i, Str(<<"t", "r", "u", "e">>))
                            THEN At(Bool(TRUE), i + 4) ELSE Fail
           [] t[i] = 102 -> IF Lit(t, i, Str(<<"f", "a", "l", "s", "e">>))
                            THEN At(Bool(FALSE), i + 5) ELSE Fail
           [] t[i] \in 48..57 -> ParseNumber(t, i)
           [] OTHER -> Fail

\* After "[": the closing bracket, or the first element and the others.
ParseArray(t, i) ==
    IF i > Len(t) THEN Fail
    ELSE IF t[i] = 93 THEN At(Array(<<>>), i + 1)
    ELSE ParseElements(t, <<>>, ParseValue(t, i))

\* e is the element just read: a comma and one more, or the closing bracket.
ParseElements(t, acc, e) ==
    IF ~e.ok THEN Fail
    ELSE IF Sep(t, e.next) = 44
         THEN ParseElements(t, Append(acc, e.val), ParseValue(t, SkipWs(t, e.next) + 1))
    ELSE IF Sep(t, e.next) = 93
         THEN At(Array(Append(acc, e.val)), SkipWs(t, e.next) + 1)
    ELSE Fail

\* After "{": the closing brace, or the first member and the others.
ParseObject(t, i) ==
    IF i > Len(t) THEN Fail
    ELSE IF t[i] = 125 THEN At(Object(<<>>), i + 1)
    ELSE ParseMembers(t, <<>>, ParseMember(t, i))

\* A member: its key, a colon, its value.
ParseMember(t, i) ==
    IF i > Len(t) \/ t[i] # 34 THEN Fail
    ELSE MemberAfterKey(t, ParseChars(t, i + 1, <<>>))

MemberAfterKey(t, k) ==
    IF ~k.ok THEN Fail
    ELSE IF Sep(t, k.next) # 58 THEN Fail
    ELSE MemberAfterColon(t, k.val, ParseValue(t, SkipWs(t, k.next) + 1))

MemberAfterColon(t, key, v) ==
    IF ~v.ok THEN Fail ELSE At(<<key, v.val>>, v.next)

\* m is the member just read: a comma and one more, or the closing brace.
ParseMembers(t, acc, m) ==
    IF ~m.ok THEN Fail
    ELSE IF Sep(t, m.next) = 44
         THEN ParseMembers(t, Append(acc, m.val),
                           ParseMember(t, SkipWs(t, SkipWs(t, m.next) + 1)))
    ELSE IF Sep(t, m.next) = 125
         THEN At(Object(Append(acc, m.val)), SkipWs(t, m.next) + 1)
    ELSE Fail

\* Nothing but white space may follow the value.
ParseEnd(t, r) ==
    IF ~r.ok THEN Fail
    ELSE IF SkipWs(t, r.next) <= Len(t) THEN Fail
    ELSE r

\* The whole text as one value.
ParseText(t) == ParseEnd(t, ParseValue(t, 1))

(***************************************************************************)
(* The serde layer of the deprecated ContractClass: what Serialize writes  *)
(* into a serde_json::Value and what Deserialize reads from a JSON text.   *)
(***************************************************************************)

\* The names of the fields, of the tags and of the variants.
Name ==
    [abi |-> Str(<<"a", "b", "i">>),
     program |-> Str(<<"p", "r", "o", "g", "r", "a", "m">>),
     entry_points_by_type |-> Str(<<"e", "n", "t", "r", "y", "_", "p", "o", "i", "n", "t", "s", "_", "b", "y", "_", "t", "y", "p", "e">>),
     attributes |-> Str(<<"a", "t", "t", "r", "i", "b", "u", "t", "e", "s">>),
     builtins |-> Str(<<"b", "u", "i", "l", "t", "i", "n", "s">>),
     compiler_version |-> Str(<<"c", "o", "m", "p", "i", "l", "e", "r", "_", "v", "e", "r", "s", "i", "o", "n">>),
     data |-> Str(<<"d", "a", "t", "a">>),
     debug_info |-> Str(<<"d", "e", "b", "u", "g", "_", "i", "n", "f", "o">>),
     hints |-> Str(<<"h", "i", "n", "t", "s">>),
     identifiers |-> Str(<<"i", "d", "e", "n", "t", "i", "f", "i", "e", "r", "s">>),
     main_scope |-> Str(<<"m", "a", "i", "n", "_", "s", "c", "o", "p", "e">>),
     prime |-> Str(<<"p", "r", "i", "m", "e">>),
     reference_manager |-> Str(<<"r", "e", "f", "e", "r", "e", "n", "c", "e", "_", "m", "a", "n", "a", "g", "e", "r">>),
     selector |-> Str(<<"s", "e", "l", "e", "c", "t", "o", "r">>),
     offset |-> Str(<<"o", "f", "f", "s", "e", "t">>),
     type |-> Str(<<"t", "y", "p", "e">>),
     event |-> Str(<<"e", "v", "e", "n", "t">>),
     function |-> Str(<<"f", "u", "n", "c", "t", "i", "o", "n">>),
     constructor |-> Str(<<"c", "o", "n", "s", "t", "r", "u", "c", "t", "o", "r">>),
     l1_handler |-> Str(<<"l", "1", "_", "h", "a", "n", "d", "l", "e", "r">>),
     struct |-> Str(<<"s", "t", "r", "u", "c", "t">>),
     name |-> Str(<<"n", "a", "m", "e">>),
     keys |-> Str(<<"k", "e", "y", "s">>),
     inputs |-> Str(<<"i", "n", "p", "u", "t", "s">>),
     outputs |-> Str(<<"o", "u", "t", "p", "u", "t", "s">>),
     stateMutability |-> Str(<<"s", "t", "a", "t", "e", "M", "u", "t", "a", "b", "i", "l", "i", "t", "y">>),
     view |-> Str(<<"v", "i", "e", "w">>),
     size |-> Str(<<"s", "i", "z", "e">>),
     members |-> Str(<<"m", "e", "m", "b", "e", "r", "s">>),
     CONSTRUCTOR |-> Str(<<"C", "O", "N", "S", "T", "R", "U", "C", "T", "O", "R">>),
     EXTERNAL |-> Str(<<"E", "X", "T", "E", "R", "N", "A", "L">>),
     deployed_contracts |-> Str(<<"d", "e", "p", "l", "o", "y", "e", "d", "_", "c", "o", "n", "t", "r", "a", "c", "t", "s">>),
     storage_diffs |-> Str(<<"s", "t", "o", "r", "a", "g", "e", "_", "d", "i", "f", "f", "s">>),
     declared_classes |-> Str(<<"d", "e", "c", "l", "a", "r", "e", "d", "_", "c", "l", "a", "s", "s", "e", "s">>),
     deprecated_declared_classes |-> Str(<<"d", "e", "p", "r", "e", "c", "a", "t", "e", "d", "_", "d", "e", "c", "l", "a", "r", "e", "d", "_", "c", "l", "a", "s", "s", "e", "s">>),
     nonces |-> Str(<<"n", "o", "n", "c", "e", "s">>),
     replaced_classes |-> Str(<<"r", "e", "p", "l", "a", "c", "e", "d", "_", "c", "l", "a", "s", "s", "e", "s">>),
     sierra_program |-> Str(<<"s", "i", "e", "r", "r", "a", "_", "p", "r", "o", "g", "r", "a", "m">>),
     function_idx |-> Str(<<"f", "u", "n", "c", "t", "i", "o", "n", "_", "i", "d", "x">>),
     L1_HANDLER |-> Str(<<"L", "1", "_", "H", "A", "N", "D", "L", "E", "R">>)]

\* Option<T>: None, or Some(v).
None == <<>>
Some(v) == <<v>>

\* A result without a position.
Good(v) == [ok |-> TRUE, val |-> v]

\* Result::Err(e)
Err(e) == [ok |-> FALSE, err |-> e]

\* a < b for two strings (the order of the bytes).
RECURSIVE StrLess(_, _)
StrLess(a, b) ==
    IF b = <<>> THEN FALSE
    ELSE IF a = <<>> THEN TRUE
    ELSE IF a[1] # b[1] THEN a[1] < b[1]
    ELSE StrLess(Tail(a), Tail(b))

\* The value key k has once the pairs are inserted in order: the last one.
LastValue(pairs, k) ==
    pairs[CHOOSE i \in 1..Len(pairs) :
             pairs[i][1] = k /\ \A j \in (i + 1)..Len(pairs) : pairs[j][1] # k][2]

\* The n-th of the keys ks in increasing order.
NthKey(ks, n) == CHOOSE k \in ks : Cardinality({x \in ks : StrLess(x, k)}) = n - 1

\* A BTreeMap after the pairs are inserted in order: the keys in increasing
\* order, a key inserted again having taken the new value.
BTreeMapFrom(pairs) ==
    [n \in 1..Cardinality(KeySet(pairs)) |->
        <<NthKey(KeySet(pairs), n), LastValue(pairs, NthKey(KeySet(pairs), n))>>]

\* The key of pairs[i] is not in the pairs before it.
FirstAt(pairs, i) == \A j \in 1..(i - 1) : pairs[j][1] # pairs[i][1]

\* The position in pairs of the n-th distinct key.
NthFirst(pairs, n) ==
    CHOOSE i \in 1..Len(pairs) :
        FirstAt(pairs, i) /\ Cardinality({j \in 1..i : FirstAt(pairs, j)}) = n

\* An IndexMap after the pairs are inserted in order: the keys in the order
\* of their first insertion, a key inserted again having taken the new value.
IndexMapFrom(pairs) ==
    [n \in 1..Cardinality(KeySet(pairs)) |->
        <<pairs[NthFirst(pairs, n)][1], LastValue(pairs, pairs[NthFirst(pairs, n)][1])>>]

\* serde_json::Map after the pairs are inserted in order.  The Map is a
\* BTreeMap, or an IndexMap when serde_json is built with preserve_order (po).
MapFrom(pairs, po) == IF po THEN IndexMapFrom(pairs) ELSE BTreeMapFrom(pairs)

\* A struct or a map serialized into a Value: its members inserted in order.
StructToValue(fields, po) == Object(MapFrom(fields, po))

\* A Value built from the members as given: every Object becomes a Map.
\* This is Value::serialize into a Value, and Value::deserialize.
RECURSIVE ValueFrom(_, _)
ValueFrom(v, po) ==
    CASE v[1] = "array" -> Array([i \in 1..Len(v[2]) |-> ValueFrom(v[2][i], po)])
      [] v[1] = "object" ->
            Object(MapFrom([i \in 1..Len(v[2]) |->
                              <<v[2][i][1], ValueFrom(v[2][i][2], po)>>], po))
      [] OTHER -> v

HexDigit(d) == IF d < 10 THEN 48 + d ELSE 87 + d

RECURSIVE Hex(_)
Hex(n) == IF n < 16 THEN <<HexDigit(n)>> ELSE Append(Hex(n \div 16), HexDigit(n % 16))

\* The decimal digits where the hexadecimal ones belong.
U64ToDecimal(n) == Decimal(n)

\* u64_to_hex: format!("{:#x}", value).
U64ToHex(n) == <<48, 120>> \o Hex(n)

\* A slip: one leading "0x" is dropped (strip_prefix).
TrimStart0xOnce(s) ==
    IF Len(s) >= 2 /\ s[1] = 48 /\ s[2] = 120 THEN SubSeq(s, 3, Len(s)) ELSE s

\* trim_start_matches("0x"): every leading "0x" is dropped.
RECURSIVE TrimStart0x(_)
TrimStart0x(s) ==
    IF Len(s) >= 2 /\ s[1] = 48 /\ s[2] = 120
    THEN TrimStart0x(SubSeq(s, 3, Len(s)))
    ELSE s

\* The value of a hexadecimal digit, -1 for another character.
HexValue(c) ==
    IF c \in 48..57 THEN c - 48
    ELSE IF c \in 97..102 THEN c - 87
    ELSE IF c \in 65..70 THEN c - 55
    ELSE -1

RECURSIVE HexDigitsValue(_, _, _)
HexDigitsValue(s, i, n) ==
    IF i > Len(s) THEN Good(n)
    ELSE IF HexValue(s[i]) < 0 THEN Fail
    ELSE HexDigitsValue(s, i + 1, 16 * n + HexValue(s[i]))

\* The digits of u64::from_str_radix(s, 16) from position i on, where n is
\* the value of the digits read and k how many they are after the leading
\* zeros.  A character that is no digit is refused where it stands, and so is
\* a seventeenth digit, which no longer fits 64 bits.  The model's numbers
\* hold seven digits; a value of eight to sixteen digits is reported as 8.
RECURSIVE U64HexDigits(_, _, _, _)
U64HexDigits(s, i, n, k) ==
    IF i > Len(s) THEN IF k <= 7 THEN Good(n) ELSE Good(<<8>>)
    ELSE IF HexValue(s[i]) < 0 THEN Err("InvalidDigit")
    ELSE IF k = 16 THEN Err("PosOverflow")
    ELSE IF k = 0 /\ HexValue(s[i]) = 0 THEN U64HexDigits(s, i + 1, 0, 0)
    ELSE U64HexDigits(s, i + 1, IF k < 7 THEN 16 * n + HexValue(s[i]) ELSE n, k + 1)

\* u64::from_str_radix(s, 16): an optional plus sign and at least one digit.
\* The error is the ParseIntError's kind.
FromStrRadix16(s) ==
    IF s = <<>> THEN Err("Empty")
    ELSE IF s[1] = 43
         THEN IF Len(s) = 1 THEN Err("InvalidDigit") ELSE U64HexDigits(s, 2, 0, 0)
    ELSE U64HexDigits(s, 1, 0, 0)

hex_string_try_into_u64(hex_string) == FromStrRadix16(TrimStart0x(hex_string))

\* A serde_json number that is no unsigned integer: a negative integer -n.
NegInt(n) == <<"number", 0 - n>>

\* A serde_json number that is no integer, or an integer beyond 64 bits: an
\* f64, given by the text it was read from.
Float(text) == <<"float", text>>

\* serde_json::Number::as_u64: only a non-negative integer has one.
as_u64(v) == IF v[1] = "number" /\ v[2] >= 0 THEN Some(v[2]) ELSE None

\* impl Display for ParseIntError
ParseIntErrorText(kind) ==
    CASE kind = "Empty" -> "cannot parse integer from empty string"
      [] kind = "InvalidDigit" -> "invalid digit found in string"
      [] kind = "PosOverflow" -> "number too large to fit in target type"

\* DeserializationError::custom(msg): the message and nothing else.
Custom(msg) == [message |-> msg, carried |-> <<>>]

NumberOrErr(n) ==
    IF n = None THEN Err(Custom("Cannot cast number to usize.")) ELSE Good(n[1])

StringOrErr(r) == IF r.ok THEN r ELSE Err(Custom(ParseIntErrorText(r.err)))

\* number_or_string: a number as it is when it is a u64, a string as
\* hexadecimal, and nothing else.
number_or_string(v) ==
    CASE v[1] \in {"number", "float"} -> NumberOrErr(as_u64(v))
      [] v[1] = "string" -> StringOrErr(hex_string_try_into_u64(v[2]))
      [] OTHER -> Err(Custom("Cannot cast value into usize."))

\* StarkFelt as JSON: "0x" and the hexadecimal digits.
FeltToValue(f) == String(<<48, 120>> \o Hex(f))

FeltFromJson(v) ==
    IF v[1] # "string" THEN Fail
    ELSE IF Len(v[2]) < 3 \/ v[2][1] # 48 \/ v[2][2] # 120 THEN Fail
    ELSE HexDigitsValue(v[2], 3, 0)

\* The serde names of EntryPointType.
EntryPointTypeName(t) ==
    CASE t = Constructor -> Name.CONSTRUCTOR
      [] t = External -> Name.EXTERNAL
      [] t = L1Handler -> Name.L1_HANDLER

\* EntryPoint { selector, offset }: the pair <<selector, offset>>.
LegacyEntryPointToValue(e, po) ==
    StructToValue(<< <<Name.selector, FeltToValue(e[1])>>,
                     <<Name.offset, String(U64ToHex(e[2]))>> >>, po)

LegacyEntryPointsToValue(v, po) ==
    Array([i \in 1..Len(v) |-> LegacyEntryPointToValue(v[i], po)])

\* IndexMap<EntryPointType, Vec<EntryPoint>>: a map keyed by the names.
EntryPointsByTypeToValue(m, po) ==
    StructToValue([i \in 1..Len(m) |->
                      <<EntryPointTypeName(m[i][1]), LegacyEntryPointsToValue(m[i][2], po)>>],
                  po)

ProgramFields ==
    <<"attributes", "builtins", "compiler_version", "data", "debug_info", "hints",
      "identifiers", "main_scope", "prime", "reference_manager">>

ProgramFieldName(f) ==
    CASE f = "attributes" -> Name.attributes
      [] f = "builtins" -> Name.builtins
      [] f = "compiler_version" -> Name.compiler_version
      [] f = "data" -> Name.data
      [] f = "debug_info" -> Name.debug_info
      [] f = "hints" -> Name.hints
      [] f = "identifiers" -> Name.identifiers
      [] f = "main_scope" -> Name.main_scope
      [] f = "prime" -> Name.prime
      [] f = "reference_manager" -> Name.reference_manager

\* The fields of Program marked #[serde(default)].
ProgramDefaults == {"attributes", "compiler_version", "debug_info"}

\* Program: its ten Values, in the order of the declaration.
ProgramToValue(p, po) ==
    StructToValue([i \in 1..Len(ProgramFields) |->
                      <<ProgramFieldName(ProgramFields[i]), ValueFrom(p[ProgramFields[i]], po)>>],
                  po)

\* TypedParameter { name, type }.
TypedParameterFields(tp) ==
    << <<Name.name, String(tp.name)>>, <<Name.type, String(tp.type)>> >>

TypedParametersToValue(v, po) ==
    Array([i \in 1..Len(v) |-> StructToValue(TypedParameterFields(v[i]), po)])

\* StructMember: the fields of param, flattened, and offset.
StructMembersToValue(v, po) ==
    Array([i \in 1..Len(v) |->
              StructToValue(TypedParameterFields(v[i].param)
                            \o << <<Name.offset, Number(v[i].offset)>> >>, po)])

\* The serde tags of ContractClassAbiEntry.
FunctionVariants == {"Function", "Constructor", "L1Handler"}

AbiTag(variant) ==
    CASE variant = "Event" -> Name.event
      [] variant = "Function" -> Name.function
      [] variant = "Constructor" -> Name.constructor
      [] variant = "L1Handler" -> Name.l1_handler
      [] variant = "Struct" -> Name.struct

\* The fields of EventAbiEntry, FunctionAbiEntry (stateMutability is left
\* out when None) and StructAbiEntry.
AbiEntryFields(e, po) ==
    CASE e.variant = "Event" ->
            << <<Name.name, String(e.name)>>,
               <<Name.keys, TypedParametersToValue(e.keys, po)>>,
               <<Name.data, TypedParametersToValue(e.data, po)>> >>
      [] e.variant \in FunctionVariants ->
            << <<Name.name, String(e.name)>>,
               <<Name.inputs, TypedParametersToValue(e.inputs, po)>>,
               <<Name.outputs, TypedParametersToValue(e.outputs, po)>> >>
            \o (IF e.state_mutability = None
                THEN <<>>
                ELSE << <<Name.stateMutability, String(Name.view)>> >>)
      [] e.variant = "Struct" ->
            << <<Name.name, String(e.name)>>,
               <<Name.size, Number(e.size)>>,
               <<Name.members, StructMembersToValue(e.members, po)>> >>

\* ContractClassAbiEntry, #[serde(tag = "type")]: the tag, then the fields.
ContractClassAbiEntryToValue(e, po) ==
    StructToValue(<< <<Name.type, String(AbiTag(e.variant))>> >> \o AbiEntryFields(e, po), po)

\* Option<Vec<ContractClassAbiEntry>>.
AbiToValue(abi, po) ==
    IF abi = None
    THEN Null
    ELSE Array([i \in 1..Len(abi[1]) |-> ContractClassAbiEntryToValue(abi[1][i], po)])

\* serde_json::json!(self) for the deprecated ContractClass.
LegacyToValue(c, po) ==
    StructToValue(<< <<Name.abi, AbiToValue(c.abi, po)>>,
                     <<Name.program, ProgramToValue(c.program, po)>>,
                     <<Name.entry_points_by_type,
                       EntryPointsByTypeToValue(c.entry_points_by_type, po)>> >>, po)

\* impl Encode for the deprecated ContractClass.
LegacyEncode(c, po) == EncodeString(WriteValue(LegacyToValue(c, po)))

\* impl Encode for Program: the JSON text of the program, as a String.
ProgramEncode(p, po) == EncodeString(WriteValue(ProgramToValue(p, po)))

\* The members m hold key k.
Has(m, k) == IndexOf(m, k) # 0

\* One of the keys ks comes twice in the members m.
Repeated(m, ks) ==
    \E i, j \in 1..Len(m) : i < j /\ m[i][1] = m[j][1] /\ m[i][1] \in ks

\* What a derived Deserialize asks of the JSON value of a struct: an object,
\* no field twice, every field without a default present.  Other keys are
\* passed over.  (A struct written as an array is outside the model's texts.)
StructShape(v, required, defaulted) ==
    /\ v[1] = "object"
    /\ ~Repeated(v[2], required \cup defaulted)
    /\ \A k \in required : Has(v[2], k)

\* The results of the elements as one result.
Gather(rs) ==
    IF \A i \in 1..Len(rs) : rs[i].ok
    THEN Good([i \in 1..Len(rs) |-> rs[i].val])
    ELSE Fail

\* Vec<T> from an array, F reading a T.
VecFromJson(v, F(_)) ==
    IF v[1] # "array" THEN Fail ELSE Gather([i \in 1..Len(v[2]) |-> F(v[2][i])])

StringFromJson(v) == IF v[1] = "string" THEN Good(v[2]) ELSE Fail

U64FromJson(v) == IF v[1] = "number" THEN Good(v[2]) ELSE Fail

TypedParameterFromParts(n, t) ==
    IF ~n.ok \/ ~t.ok THEN Fail ELSE Good([name |-> n.val, type |-> t.val])

TypedParameterFromJson(v) ==
    IF ~StructShape(v, {Name.name, Name.type}, {}) THEN Fail
    ELSE TypedParameterFromParts(StringFromJson(Get(v[2], Name.name)),
                                 StringFromJson(Get(v[2], Name.type)))

StructMemberFromParts(p, o) ==
    IF ~p.ok \/ ~o.ok THEN Fail ELSE Good([param |-> p.val, offset |-> o.val])

StructMemberFromJson(v) ==
    IF ~StructShape(v, {Name.name, Name.type, Name.offset}, {}) THEN Fail
    ELSE StructMemberFromParts(TypedParameterFromJson(v), U64FromJson(Get(v[2], Name.offset)))

EventFromParts(n, k, d) ==
    IF ~n.ok \/ ~k.ok \/ ~d.ok THEN Fail
    ELSE Good([variant |-> "Event", name |-> n.val, keys |-> k.val, data |-> d.val])

EventFromJson(v) ==
    IF ~StructShape(v, {Name.name, Name.keys, Name.data}, {}) THEN Fail
    ELSE EventFromParts(StringFromJson(Get(v[2], Name.name)),
                        VecFromJson(Get(v[2], Name.keys), TypedParameterFromJson),
                        VecFromJson(Get(v[2], Name.data), TypedParameterFromJson))

\* Option<FunctionStateMutability>, None when the key is absent.
StateMutabilityFromJson(m) ==
    IF ~Has(m, Name.stateMutability) THEN Good(None)
    ELSE IF Get(m, Name.stateMutability) = Null THEN Good(None)
    ELSE IF Get(m, Name.stateMutability) = String(Name.view) THEN Good(Some("View"))
    ELSE Fail

FunctionFromParts(variant, n, i, o, s) ==
    IF ~n.ok \/ ~i.ok \/ ~o.ok \/ ~s.ok THEN Fail
    ELSE Good([variant |-> variant, name |-> n.val, inputs |-> i.val, outputs |-> o.val,
               state_mutability |-> s.val])

FunctionFromJson(variant, v) ==
    IF ~StructShape(v, {Name.name, Name.inputs, Name.outputs}, {Name.stateMutability})
    THEN Fail
    ELSE FunctionFromParts(variant,
                           StringFromJson(Get(v[2], Name.name)),
                           VecFromJson(Get(v[2], Name.inputs), TypedParameterFromJson),
                           VecFromJson(Get(v[2], Name.outputs), TypedParameterFromJson),
                           StateMutabilityFromJson(v[2]))

StructFromParts(n, s, m) ==
    IF ~n.ok \/ ~s.ok \/ ~m.ok THEN Fail
    ELSE Good([variant |-> "Struct", name |-> n.val, size |-> s.val, members |-> m.val])

StructFromJson(v) ==
    IF ~StructShape(v, {Name.name, Name.size, Name.members}, {}) THEN Fail
    ELSE StructFromParts(StringFromJson(Get(v[2], Name.name)),
                         U64FromJson(Get(v[2], Name.size)),
                         VecFromJson(Get(v[2], Name.members), StructMemberFromJson))

\* The variant a tag names, "" when none.
VariantOfTag(tag) ==
    CASE tag = Name.event -> "Event"
      [] tag = Name.function -> "Function"
      [] tag = Name.constructor -> "Constructor"
      [] tag = Name.l1_handler -> "L1Handler"
      [] tag = Name.struct -> "Struct"
      [] OTHER -> ""

AbiEntryOfVariant(variant, v) ==
    CASE variant = "Event" -> EventFromJson(v)
      [] variant \in FunctionVariants -> FunctionFromJson(variant, v)
      [] variant = "Struct" -> StructFromJson(v)
      [] OTHER -> Fail

\* ContractClassAbiEntry: the "type" member names the variant, the other
\* members are the fields of its struct.
ContractClassAbiEntryFromJson(v) ==
    IF v[1] # "object" THEN Fail
    ELSE IF Repeated(v[2], {Name.type}) \/ ~Has(v[2], Name.type) THEN Fail
    ELSE IF Get(v[2], Name.type)[1] # "string" THEN Fail
    ELSE AbiEntryOfVariant(VariantOfTag(Get(v[2], Name.type)[2]), v)

AbiOrNone(r) == IF r.ok THEN Some(r.val) ELSE None

\* The abi is not verified: one that cannot be read is None.
deserialize_optional_contract_class_abi_entry_vector(v) ==
    IF v = Null THEN None ELSE AbiOrNone(VecFromJson(v, ContractClassAbiEntryFromJson))

\* The abi member, None when absent (#[serde(default)]).
AbiFromJson(m) ==
    IF ~Has(m, Name.abi) THEN None
    ELSE deserialize_optional_contract_class_abi_entry_vector(Get(m, Name.abi))

\* Program: a field with #[serde(default)] that is absent is Null.
ProgramFromJson(v, po) ==
    IF ~StructShape(v,
                    {ProgramFieldName(f) : f \in Range(ProgramFields) \ ProgramDefaults},
                    {ProgramFieldName(f) : f \in ProgramDefaults})
    THEN Fail
    ELSE Good([f \in Range(ProgramFields) |->
                  IF Has(v[2], ProgramFieldName(f))
                  THEN ValueFrom(Get(v[2], ProgramFieldName(f)), po)
                  ELSE Null])

LegacyEntryPointFromParts(s, o) ==
    IF ~s.ok \/ ~o.ok THEN Fail ELSE Good(<<s.val, o.val>>)

LegacyEntryPointFromJson(v) ==
    IF ~StructShape(v, {Name.selector, Name.offset}, {}) THEN Fail
    ELSE LegacyEntryPointFromParts(FeltFromJson(Get(v[2], Name.selector)),
                                   number_or_string(Get(v[2], Name.offset)))

\* The EntryPointType a key names, -1 when none.
EntryPointTypeOfName(k) ==
    CASE k = Name.CONSTRUCTOR -> Constructor
      [] k = Name.EXTERNAL -> External
      [] k = Name.L1_HANDLER -> L1Handler
      [] OTHER -> -1

EntryFromParts(t, es) == IF t < 0 \/ ~es.ok THEN Fail ELSE Good(<<t, es.val>>)

EntryFromJson(p) ==
    EntryFromParts(EntryPointTypeOfName(p[1]), VecFromJson(p[2], LegacyEntryPointFromJson))

CollectOk(r) == IF ~r.ok THEN Fail ELSE Good(Collect(r.val))

\* IndexMap<EntryPointType, Vec<EntryPoint>>: the members inserted in the
\* order of the text.
EntryPointsByTypeFromJson(v) ==
    IF v[1] # "object" THEN Fail
    ELSE CollectOk(Gather([i \in 1..Len(v[2]) |-> EntryFromJson(v[2][i])]))

LegacyFromParts(a, p, e) ==
    IF ~p.ok \/ ~e.ok THEN Fail
    ELSE Good([abi |-> a, program |-> p.val, entry_points_by_type |-> e.val])

\* The derived Deserialize of the deprecated ContractClass.
LegacyFromJson(v, po) ==
    IF ~StructShape(v, {Name.program, Name.entry_points_by_type}, {Name.abi}) THEN Fail
    ELSE LegacyFromParts(AbiFromJson(v[2]),
                         ProgramFromJson(Get(v[2], Name.program), po),
                         EntryPointsByTypeFromJson(Get(v[2], Name.entry_points_by_type)))

\* The message of ContractClass::decode when serde_json::from_str fails.
ContractClassJsonError == "serde_json deserialization error for ContractClass"

LegacyResult(r, rest_) ==
    IF ~r.ok THEN Err(ContractClassJsonError) ELSE Ok(r.val, rest_)

LegacyFromText(tree, rest_, po) ==
    IF ~tree.ok THEN Err(ContractClassJsonError)
    ELSE LegacyResult(LegacyFromJson(tree.val, po), rest_)

\* serde_json::from_str(&json_repr), any error mapped to the one message.
LegacyFromStr(json_repr, po) ==
    IF ~json_repr.ok THEN Fail
    ELSE LegacyFromText(ParseText(json_repr.val), json_repr.rest, po)

\* impl Decode for the deprecated ContractClass.
LegacyDecode(bs, po) == LegacyFromStr(DecodeString(bs), po)

\* serde_json::from_str::<T>(text), F reading a T from the value of the text.
from_str(text, F(_)) ==
    IF ~ParseText(text).ok THEN Fail ELSE F(ParseText(text).val)

\* A Decode through JSON: the String is read by the codec; the text is
\* parsed, any error of serde_json mapped to the message.
JsonDecode(json_repr, message, F(_)) ==
    IF ~json_repr.ok THEN Fail
    ELSE IF ~from_str(json_repr.val, F).ok THEN Err(message)
    ELSE Ok(from_str(json_repr.val, F).val, json_repr.rest)

\* The message of Program::decode when serde_json::from_str fails.
ProgramJsonError == "serde_json deserialization error for Program"

\* impl Decode for Program.
ProgramDecode(bs, po) ==
    JsonDecode(DecodeString(bs), ProgramJsonError, LAMBDA v : ProgramFromJson(v, po))

\* FunctionIndex: a JSON number that is not negative.
FunctionIndexFromJson(v) == IF as_u64(v) = None THEN Fail ELSE Good(v[2])

PairFromParts(a, b) == IF ~a.ok \/ ~b.ok THEN Fail ELSE Good(<<a.val, b.val>>)

\* EntryPoint of state.rs.
EntryPointFromJson(v) ==
    IF ~StructShape(v, {Name.function_idx, Name.selector}, {}) THEN Fail
    ELSE PairFromParts(FunctionIndexFromJson(Get(v[2], Name.function_idx)),
                       FeltFromJson(Get(v[2], Name.selector)))

ClassEntryFromJson(p) ==
    EntryFromParts(EntryPointTypeOfName(p[1]), VecFromJson(p[2], EntryPointFromJson))

ClassFromJsonParts(s, e, a) ==
    IF ~s.ok \/ ~e.ok \/ ~a.ok THEN Fail
    ELSE Good([sierra_program |-> s.val, entry_points_by_type |-> e.val, abi |-> a.val])

\* The derived Deserialize of ContractClass of state.rs.
ClassFromJson(v) ==
    IF ~StructShape(v, {Name.sierra_program, Name.entry_points_by_type, Name.abi}, {})
    THEN Fail
    ELSE ClassFromJsonParts(
             VecFromJson(Get(v[2], Name.sierra_program), FeltFromJson),
             IF Get(v[2], Name.entry_points_by_type)[1] # "object" THEN Fail
             ELSE CollectOk(Gather([i \in 1..Len(Get(v[2], Name.entry_points_by_type)[2]) |->
                      ClassEntryFromJson(Get(v[2], Name.entry_points_by_type)[2][i])])),
             StringFromJson(Get(v[2], Name.abi)))

\* An IndexMap keyed by a felt, from an object: each key read as a felt,
\* each value by V, the members inserted in the order of the text.
FeltMapFromJson(v, V(_)) ==
    IF v[1] # "object" THEN Fail
    ELSE CollectOk(Gather([i \in 1..Len(v[2]) |->
             PairFromParts(FeltFromJson(String(v[2][i][1])), V(v[2][i][2]))]))

\* IndexMap<StorageKey, StarkFelt>.
StorageFromJson(v) == FeltMapFromJson(v, FeltFromJson)

\* (CompiledClassHash, ContractClass): an array of the two.
DeclaredClassFromJson(v) ==
    IF v[1] # "array" THEN Fail
    ELSE IF Len(v[2]) # 2 THEN Fail
    ELSE PairFromParts(FeltFromJson(v[2][1]), ClassFromJson(v[2][2]))

StateDiffFromParts(dc, sd, dl, dp, n, r) ==
    IF ~dc.ok \/ ~sd.ok \/ ~dl.ok \/ ~dp.ok \/ ~n.ok \/ ~r.ok THEN Fail
    ELSE Good([deployed_contracts |-> dc.val,
               storage_diffs |-> sd.val,
               declared_classes |-> dl.val,
               deprecated_declared_classes |-> dp.val,
               nonces |-> n.val,
               replaced_classes |-> r.val])

\* The fields of StateDiff, none with a default.
StateDiffFieldNames ==
    {Name.deployed_contracts, Name.storage_diffs, Name.declared_classes,
     Name.deprecated_declared_classes, Name.nonces, Name.replaced_classes}

\* The derived Deserialize of StateDiff.
StateDiffFromJson(v, po) ==
    IF ~StructShape(v, StateDiffFieldNames, {}) THEN Fail
    ELSE StateDiffFromParts(
             FeltMapFromJson(Get(v[2], Name.deployed_contracts), FeltFromJson),
             FeltMapFromJson(Get(v[2], Name.storage_diffs), StorageFromJson),
             FeltMapFromJson(Get(v[2], Name.declared_classes), DeclaredClassFromJson),
             FeltMapFromJson(Get(v[2], Name.deprecated_declared_classes),
                             LAMBDA c : LegacyFromJson(c, po)),
             FeltMapFromJson(Get(v[2], Name.nonces), FeltFromJson),
             FeltMapFromJson(Get(v[2], Name.replaced_classes), FeltFromJson))

\* The message of StateDiff::decode when serde_json::from_str fails.
StateDiffJsonError == "serde_json deserialization error for ContractClass"

\* impl Decode for StateDiff.
StateDiffDecode(bs, po) ==
    JsonDecode(DecodeString(bs), StateDiffJsonError, LAMBDA v : StateDiffFromJson(v, po))

\* PartialEq of serde_json::Value: two Maps are equal when they hold the
\* same keys with equal values.
RECURSIVE ValueEq(_, _)
ValueEq(x, y) ==
    IF x[1] # y[1] THEN FALSE
    ELSE CASE x[1] = "null" -> TRUE
           [] x[1] = "array" ->
                 /\ Len(x[2]) = Len(y[2])
                 /\ \A i \in 1..Len(x[2]) : ValueEq(x[2][i], y[2][i])
           [] x[1] = "object" ->
                 /\ KeySet(x[2]) = KeySet(y[2])
                 /\ \A k \in KeySet(x[2]) : ValueEq(Get(x[2], k), Get(y[2], k))
           [] OTHER -> x[2] = y[2]

\* PartialEq of IndexMap: the same keys with equal values, in any order.
IndexMapEq(a, b) ==
    /\ KeySet(a) = KeySet(b)
    /\ \A k \in KeySet(a) : Get(a, k) = Get(b, k)

\* The derived PartialEq of the deprecated ContractClass.
LegacyEq(a, b) ==
    /\ a.abi = b.abi
    /\ \A f \in Range(ProgramFields) : ValueEq(a.program[f], b.program[f])
    /\ IndexMapEq(a.entry_points_by_type, b.entry_points_by_type)

(***************************************************************************)
(* The producer fills the public fields of a StateDiff.                    *)
(***************************************************************************)

CanInsert == pc = "build" /\ Entries(diff) < MaxEntries

Frame == UNCHANGED <<input, output, legacy, preserve_order, pc, thin, declared, deprecated, class, uint, width, rest,
                     encoded, decoded, reencoded>>

InsertDeployedContract ==
    /\ CanInsert
    /\ \E a \in ContractAddresses, h \in ClassHashes :
         diff' = [diff EXCEPT !.deployed_contracts = IndexMapInsert(@, a, h)]
    /\ Frame

InsertStorageDiff ==
    /\ CanInsert
    /\ \E a \in ContractAddresses, k \in StorageKeys, v \in StorageValues :
         LET inner == IF IndexOf(diff.storage_diffs, a) = 0
                      THEN <<>>
                      ELSE Get(diff.storage_diffs, a)
         IN diff' = [diff EXCEPT !.storage_diffs =
                        IndexMapInsert(@, a, IndexMapInsert(inner, k, v))]
    /\ Frame

InsertDeclaredClass ==
    /\ CanInsert
    /\ \E h \in ClassHashes, c \in CompiledClassHashes, body \in ContractClasses :
         diff' = [diff EXCEPT !.declared_classes = IndexMapInsert(@, h, <<c, body>>)]
    /\ Frame

InsertDeprecatedDeclaredClass ==
    /\ CanInsert
    /\ \E h \in ClassHashes, body \in DeprecatedContractClasses :
         diff' = [diff EXCEPT !.deprecated_declared_classes = IndexMapInsert(@, h, body)]
    /\ Frame

InsertNonce ==
    /\ CanInsert
    /\ \E a \in ContractAddresses, n \in Nonces :
         diff' = [diff EXCEPT !.nonces = IndexMapInsert(@, a, n)]
    /\ Frame

InsertReplacedClass ==
    /\ CanInsert
    /\ \E a \in ContractAddresses, h \in ClassHashes :
         diff' = [diff EXCEPT !.replaced_classes = IndexMapInsert(@, a, h)]
    /\ Frame

(***************************************************************************)
(* The reducer and the ThinStateDiff codec.                                *)
(***************************************************************************)

\* A call of ThinStateDiff::from_state_diff(diff).
Reduce ==
    /\ pc = "build"
    /\ thin' = FromStateDiff(diff)[1]
    /\ declared' = FromStateDiff(diff)[2]
    /\ deprecated' = FromStateDiff(diff)[3]
    /\ pc' = "reduced"
    /\ UNCHANGED <<input, output, legacy, preserve_order, diff, class, uint, width, rest, encoded, decoded, reencoded>>

\* A call of ThinStateDiff::from(diff): the side tables are dropped.
Convert ==
    /\ pc = "build"
    /\ thin' = From(diff)
    /\ pc' = "converted"
    /\ UNCHANGED <<input, output, legacy, preserve_order, diff, declared, deprecated, class, uint, width, rest,
                   encoded, decoded, reencoded>>

\* thin.encode().
EncodeThin ==
    /\ pc = "reduced"
    /\ encoded' = ThinEncode(thin)
    /\ pc' = "encoded"
    /\ UNCHANGED <<input, output, legacy, preserve_order, diff, thin, declared, deprecated, class, uint, width, rest,
                   decoded, reencoded>>

\* ThinStateDiff::decode(&mut &encoded[..]).
DecodeThin ==
    /\ pc = "encoded"
    /\ decoded' = ThinDecode(encoded)
    /\ pc' = "decoded"
    /\ UNCHANGED <<input, output, legacy, preserve_order, diff, thin, declared, deprecated, class, uint, width, rest,
                   encoded, reencoded>>

\* decoded.encode(), when the decode succeeded.
ReencodeThin ==
    /\ pc = "decoded"
    /\ decoded.ok
    /\ reencoded' = ThinEncode(decoded.val)
    /\ pc' = "reencoded"
    /\ UNCHANGED <<input, output, legacy, preserve_order, diff, thin, declared, deprecated, class, uint, width, rest,
                   encoded, decoded>>

(***************************************************************************)
(* A ContractClass is filled and goes through its codec.                   *)
(***************************************************************************)

\* The number of items (program elements, entry-point types, entry points,
\* ABI bytes) pushed into one ContractClass.
MaxClassItems == 3

SierraFelts == {0, 1}
FunctionIndexes == {7}
Selectors == {1, 2}
AbiBytes == {97, 98}

ClassItems(c) ==
    Len(c.sierra_program) + Len(c.entry_points_by_type)
    + SumLen(Values(c.entry_points_by_type)) + Len(c.abi)

CanPush == pc = "class_build" /\ ClassItems(class) < MaxClassItems

ClassFrame == UNCHANGED <<input, output, legacy, preserve_order, pc, diff, thin, declared, deprecated, uint, width, rest,
                          encoded, decoded, reencoded>>

PushSierra ==
    /\ CanPush
    /\ \E f \in SierraFelts :
         class' = [class EXCEPT !.sierra_program = Append(@, f)]
    /\ ClassFrame

\* entry_points_by_type.entry(t).or_default().push(e), or the bare entry.
PushEntryPoint ==
    /\ CanPush
    /\ \E t \in EntryPointTypes :
         LET old == IF IndexOf(class.entry_points_by_type, t) = 0
                    THEN <<>>
                    ELSE Get(class.entry_points_by_type, t)
         IN \/ /\ IndexOf(class.entry_points_by_type, t) = 0
               /\ class' = [class EXCEPT !.entry_points_by_type =
                               IndexMapInsert(@, t, <<>>)]
            \/ \E i \in FunctionIndexes, sel \in Selectors :
                 class' = [class EXCEPT !.entry_points_by_type =
                              IndexMapInsert(@, t,
                                  Append(old, <<i, sel>>))]
    /\ ClassFrame

PushAbi ==
    /\ CanPush
    /\ \E ch \in AbiBytes : class' = [class EXCEPT !.abi = Append(@, ch)]
    /\ ClassFrame

\* class.encode().
EncodeClass ==
    /\ pc = "class_build"
    /\ encoded' = ClassEncode(class)
    /\ pc' = "class_encoded"
    /\ UNCHANGED <<input, output, legacy, preserve_order, diff, thin, declared, deprecated, class, uint, width, rest,
                   decoded, reencoded>>

\* ContractClass::decode(&mut &encoded[..]).
DecodeClass ==
    /\ pc = "class_encoded"
    /\ decoded' = ClassDecode(encoded)
    /\ pc' = "class_decoded"
    /\ UNCHANGED <<input, output, legacy, preserve_order, diff, thin, declared, deprecated, class, uint, width, rest,
                   encoded, reencoded>>

\* decoded.encode(), when the decode succeeded.
ReencodeClass ==
    /\ pc = "class_decoded"
    /\ decoded.ok
    /\ reencoded' = ClassEncode(decoded.val)
    /\ pc' = "class_reencoded"
    /\ UNCHANGED <<input, output, legacy, preserve_order, diff, thin, declared, deprecated, class, uint, width, rest,
                   encoded, decoded>>

(***************************************************************************)
(* A deprecated ContractClass is filled and goes through its codec.        *)
(***************************************************************************)

\* The number of items (ABI entries, program fields, entry-point types,
\* entry points) put into one deprecated ContractClass.
MaxLegacyItems == 2

LegacySelectors == {26}
Offsets == {0, 123}

FeltParameter == [name |-> Str(<<"x">>), type |-> Str(<<"f", "e", "l", "t">>)]

LegacyAbiEntries ==
    {[variant |-> "Function", name |-> Str(<<"f">>), inputs |-> <<FeltParameter>>,
      outputs |-> <<>>, state_mutability |-> Some("View")],
     [variant |-> "L1Handler", name |-> Str(<<"h">>), inputs |-> <<>>,
      outputs |-> <<FeltParameter>>, state_mutability |-> None],
     [variant |-> "Struct", name |-> Str(<<"s">>), size |-> 2,
      members |-> <<[param |-> FeltParameter, offset |-> 1]>>],
     [variant |-> "Event", name |-> Str(<<"e">>), keys |-> <<>>,
      data |-> <<FeltParameter>>]}

\* The fields of the program the producer fills, and what it puts there: a
\* number, a string with characters the writer escapes, an array, an object
\* with its keys in order and one with its keys out of order.
LegacyProgramFields == {"data", "hints"}

ProgramValues ==
    {Number(10),
     String(<<34, 92, 10, 97>>),
     Array(<<String(<<48, 120, 49>>), Bool(TRUE)>>),
     Object(<< <<Str(<<"a">>), Object(<< <<Str(<<"y">>), Null>> >>)>>,
               <<Str(<<"b">>), Number(1)>> >>),
     Object(<< <<Str(<<"b">>), Number(1)>>, <<Str(<<"a">>), Array(<<>>)>> >>)}

EmptyProgram == [f \in Range(ProgramFields) |-> Null]

\* ContractClass::default().
EmptyLegacy == [abi |-> None, program |-> EmptyProgram, entry_points_by_type |-> <<>>]

\* A deprecated ContractClass with an abi, a program and entry points of
\* two types, L1Handler first.
LegacyA ==
    [abi |-> Some(<<[variant |-> "Function", name |-> Str(<<"f">>),
                     inputs |-> <<FeltParameter>>, outputs |-> <<>>,
                     state_mutability |-> Some("View")],
                    [variant |-> "Struct", name |-> Str(<<"s">>), size |-> 2,
                     members |-> <<[param |-> FeltParameter, offset |-> 1]>>]>>),
     program |-> [EmptyProgram EXCEPT
                    !["data"] = Array(<<String(<<48, 120, 49>>), Number(255)>>),
                    !["identifiers"] =
                        Object(<< <<Str(<<"m", "a", "i", "n">>),
                                    Object(<< <<Str(<<"p", "c">>), Number(0)>>,
                                              <<Str(<<"t", "y", "p", "e">>),
                                                String(<<34, 92, 10, 97>>)>> >>)>> >>),
                    !["prime"] = String(<<48, 120, 56, 48>>)],
     entry_points_by_type |->
        << <<L1Handler, << <<26, 123>>, <<1, 0>> >> >>,
           <<Constructor, << <<2, 4096>> >> >> >>]

LegacyItems(c) ==
    (IF c.abi = None THEN 0 ELSE 1 + Len(c.abi[1]))
    + Cardinality({f \in Range(ProgramFields) : c.program[f] # Null})
    + Len(c.entry_points_by_type) + SumLen(Values(c.entry_points_by_type))

CanPut == pc = "legacy_build" /\ LegacyItems(legacy) < MaxLegacyItems

LegacyFrame == UNCHANGED <<input, output, pc, preserve_order, diff, thin, declared, deprecated, class,
                           uint, width, rest, encoded, decoded, reencoded, input, output>>

\* abi = Some(vec![]), or one more entry in it.
PushLegacyAbi ==
    /\ CanPut
    /\ \/ /\ legacy.abi = None
          /\ legacy' = [legacy EXCEPT !.abi = Some(<<>>)]
       \/ \E e \in LegacyAbiEntries :
            legacy' = [legacy EXCEPT !.abi =
                          IF @ = None THEN Some(<<e>>) ELSE Some(Append(@[1], e))]
    /\ LegacyFrame

\* A field of the program is set to a Value of this build of serde_json.
SetProgramField ==
    /\ CanPut
    /\ \E f \in LegacyProgramFields, v \in ProgramValues :
         /\ legacy.program[f] = Null
         /\ ValueFrom(v, preserve_order) = v
         /\ legacy' = [legacy EXCEPT !.program[f] = v]
    /\ LegacyFrame

\* entry_points_by_type.entry(t).or_default().push(e), or the bare entry.
PushLegacyEntryPoint ==
    /\ CanPut
    /\ \E t \in EntryPointTypes :
         \/ /\ IndexOf(legacy.entry_points_by_type, t) = 0
            /\ legacy' = [legacy EXCEPT !.entry_points_by_type = IndexMapInsert(@, t, <<>>)]
         \/ \E sel \in LegacySelectors, o \in Offsets :
              legacy' = [legacy EXCEPT !.entry_points_by_type =
                            IndexMapInsert(@, t,
                                (IF IndexOf(@, t) = 0 THEN <<>> ELSE Get(@, t))
                                \o << <<sel, o>> >>)]
    /\ LegacyFrame

\* legacy.encode().
EncodeLegacy ==
    /\ pc = "legacy_build"
    /\ encoded' = LegacyEncode(legacy, preserve_order)
    /\ pc' = "legacy_encoded"
    /\ UNCHANGED <<input, output, legacy, preserve_order, diff, thin, declared, deprecated, class,
                   uint, width, rest, decoded, reencoded>>

\* ContractClass::decode(&mut &encoded[..]), in the same build.
DecodeLegacy ==
    /\ pc = "legacy_encoded"
    /\ decoded' = LegacyDecode(encoded, preserve_order)
    /\ pc' = "legacy_decoded"
    /\ UNCHANGED <<input, output, legacy, preserve_order, diff, thin, declared, deprecated, class,
                   uint, width, rest, encoded, reencoded>>

(***************************************************************************)
(* A compact integer is written and read back.                             *)
(***************************************************************************)

\* The little-endian bytes, on w bytes, of the numbers whose top non-zero
\* byte is one of 1, 63, 64, 255 and whose lower bytes are all 0 or all 255;
\* and zero.  They include 63, 64, 16383, 16384, 2^30-1, 2^30 and 2^w-1.
Uints(w) ==
    {[i \in 1..w |-> 0]} \cup
    {[i \in 1..w |-> IF i < k THEN low ELSE IF i = k THEN top ELSE 0] :
        k \in 1..w, top \in {1, 63, 64, 255}, low \in {0, 255}}

\* The bytes that follow a compact integer in the input.
Rests == {<<>>, <<0>>, <<255, 1>>}

\* Compact(uint).encode_to(dest), followed by more bytes.
EncodeUint ==
    /\ pc = "uint"
    /\ encoded' = CompactEncode(uint) \o rest
    /\ pc' = "uint_encoded"
    /\ UNCHANGED <<input, output, legacy, preserve_order, diff, thin, declared, deprecated, class, uint, width, rest,
                   decoded, reencoded>>

\* Compact::<u32 or u64>::decode(&mut &encoded[..]).
DecodeUint ==
    /\ pc = "uint_encoded"
    /\ decoded' = CompactDecode(encoded, width)
    /\ pc' = "uint_decoded"
    /\ UNCHANGED <<input, output, legacy, preserve_order, diff, thin, declared, deprecated, class, uint, width, rest,
                   encoded, reencoded>>

(***************************************************************************)
(* Single calls.  A call takes its arguments from input and leaves what it *)
(* returned in output; nothing else changes.                               *)
(***************************************************************************)

Untouched == UNCHANGED <<diff, thin, declared, deprecated, class, legacy, preserve_order,
                         uint, width, rest, encoded, decoded, reencoded, input>>

\* EntryPointType with External declared first.
EntryPointTypeDeclaredExternalFirst(generation) ==
    CASE generation = "current" -> <<"External", "Constructor", "L1Handler">>
      [] generation = "legacy" -> <<"Constructor", "External", "L1Handler">>

\* The variants of EntryPointType in the order they are declared: the same
\* in state.rs and in deprecated_contract_class.rs.
EntryPointTypeDeclared(generation) ==
    CASE generation = "current" -> <<"Constructor", "External", "L1Handler">>
      [] generation = "legacy" -> <<"Constructor", "External", "L1Handler">>

\* #[default]
EntryPointTypeDefault(generation) ==
    CASE generation = "current" -> "External"
      [] generation = "legacy" -> "External"

\* derive(Encode) of a fieldless enum: one byte, the index of the variant in
\* declaration order, counted from 0.
EncodeVariant(variants, variant) == <<Position(variants, variant) - 1>>

\* derive(Decode) of a fieldless enum: one byte, which must be the index of
\* a variant.
DecodeVariant(variants, bs) ==
    IF bs = <<>> THEN Fail
    ELSE IF bs[1] >= Len(variants) THEN Fail
    ELSE Ok(variants[bs[1] + 1], Drop(bs, 1))

TagBytes == {<<>>, <<0>>, <<1>>, <<2>>, <<3>>, <<255>>, <<2, 7>>}

TagInputs ==
    [op : {"encode"}, generation : {"current", "legacy"},
     variant : {"Constructor", "External", "L1Handler"}]
    \cup [op : {"decode"}, generation : {"current", "legacy"}, bytes : TagBytes]
    \cup [op : {"default"}, generation : {"current", "legacy"}]

\* EntryPointType::encode
EncodeTag ==
    /\ pc = "tag"
    /\ input.op = "encode"
    /\ output' = EncodeVariant(EntryPointTypeDeclared(input.generation), input.variant)
    /\ pc' = "tag_done"
    /\ Untouched

\* EntryPointType::decode
DecodeTag ==
    /\ pc = "tag"
    /\ input.op = "decode"
    /\ output' = DecodeVariant(EntryPointTypeDeclared(input.generation), input.bytes)
    /\ pc' = "tag_done"
    /\ Untouched

\* EntryPointType::default
DefaultTag ==
    /\ pc = "tag"
    /\ input.op = "default"
    /\ output' = EntryPointTypeDefault(input.generation)
    /\ pc' = "tag_done"
    /\ Untouched

\* crate::hash::poseidon_hash_array: the hash of a sequence of field
\* elements, kept as a term, so that two hashes are equal exactly when what
\* was hashed is equal.
poseidon_hash_array(felts) == <<"poseidon_hash_array", felts>>

\* starknet_crypto::VerifyError
VerifyErrors == {"InvalidPublicKey", "InvalidMessageHash", "InvalidR", "InvalidS"}

\* Result<bool, E>
OkBool(b) == [ok |-> TRUE, val |-> b]

\* What starknet_crypto::verify can answer: Result<bool, VerifyError>.
VerifyAnswers == {OkBool(b) : b \in BOOLEAN} \cup {Err(e) : e \in VerifyErrors}

\* The arguments verify_message_hash_signature gives to starknet_crypto::verify.
VerifyArguments(message_hash, signature, public_key) ==
    [public_key |-> public_key, message |-> message_hash,
     r |-> signature.r, s |-> signature.s]

\* The map_err of verify_message_hash_signature: every error variant with the
\* r where the s belongs.
CryptoErrorOfRForS(err, message_hash, signature, public_key) ==
    CASE err = "InvalidPublicKey" -> <<"InvalidPublicKey", public_key>>
      [] err = "InvalidMessageHash" -> <<"InvalidMessageHash", message_hash>>
      [] err = "InvalidR" -> <<"InvalidR", signature.r>>
      [] err = "InvalidS" -> <<"InvalidS", signature.r>>

\* The map_err of verify_message_hash_signature.
CryptoErrorOf(err, message_hash, signature, public_key) ==
    CASE err = "InvalidPublicKey" -> <<"InvalidPublicKey", public_key>>
      [] err = "InvalidMessageHash" -> <<"InvalidMessageHash", message_hash>>
      [] err = "InvalidR" -> <<"InvalidR", signature.r>>
      [] err = "InvalidS" -> <<"InvalidS", signature.s>>


\* A signature that does not match read as an invalid s.
MapVerifyAnswerStrict(answer, message_hash, signature, public_key) ==
    IF answer = OkBool(TRUE)
    THEN answer
    ELSE Err(<<"InvalidS", signature.s>>)

\* Result::map_err on the answer of starknet_crypto::verify: a boolean goes
\* through, an error is replaced.
MapVerifyAnswer(answer, message_hash, signature, public_key) ==
    IF answer.ok
    THEN answer
    ELSE Err(CryptoErrorOf(answer.err, message_hash, signature, public_key))

\* verify_message_hash_signature, where answer is what starknet_crypto::verify
\* answers to the call: the call made, and the result.
verify_message_hash_signature(message_hash, signature, public_key, answer) ==
    [call |-> VerifyArguments(message_hash, signature, public_key),
     result |-> MapVerifyAnswer(answer, message_hash, signature, public_key)]

\* The message with the commitment hashed first.
BlockMessageHashCommitmentFirst(state_diff_commitment, block_hash) ==
    poseidon_hash_array(<<state_diff_commitment, block_hash>>)

\* poseidon_hash_array(&[block_hash.0, state_diff_commitment.0])
BlockMessageHash(state_diff_commitment, block_hash) ==
    poseidon_hash_array(<<block_hash, state_diff_commitment>>)

\* The map_err of verify_block_signature.
WrapBlockError(block_hash, v) ==
    [call |-> v.call,
     result |-> IF v.result.ok
                THEN v.result
                ELSE Err([block_hash |-> block_hash, error |-> v.result.err])]

verify_block_signature(sequencer_pub_key, signature, state_diff_commitment, block_hash, answer) ==
    WrapBlockError(block_hash,
        verify_message_hash_signature(BlockMessageHash(state_diff_commitment, block_hash),
                                      signature, sequencer_pub_key, answer))

PublicKeys == {11, 12}
Signatures == [r : {0, 21}, s : {31, 32}]
BlockHashes == {41, 51}
GlobalRoots == {41, 42}
MessageHashes == {poseidon_hash_array(<<61>>), BlockMessageHash(42, 41)}

VerifyInputs ==
    [op : {"message"}, message_hash : MessageHashes, signature : Signatures,
     public_key : PublicKeys, answer : VerifyAnswers]
    \cup [op : {"block"}, sequencer_pub_key : PublicKeys, signature : Signatures,
          state_diff_commitment : GlobalRoots, block_hash : BlockHashes,
          answer : VerifyAnswers]

VerifyMessageHashSignature ==
    /\ pc = "verify"
    /\ input.op = "message"
    /\ output' = verify_message_hash_signature(input.message_hash, input.signature,
                                               input.public_key, input.answer)
    /\ pc' = "verified"
    /\ Untouched

VerifyBlockSignature ==
    /\ pc = "verify"
    /\ input.op = "block"
    /\ output' = verify_block_signature(input.sequencer_pub_key, input.signature,
                                        input.state_diff_commitment, input.block_hash,
                                        input.answer)
    /\ pc' = "verified"
    /\ Untouched

\* EntryPointOffset: Serialize, as a serde_json::Value.
OffsetToValue(offset) == String(U64ToHex(offset))

\* What comes back when the text of a value is read as an EntryPointOffset.
OffsetFromText(r) == IF ~r.ok THEN Err(Custom("syntax")) ELSE number_or_string(r.val)

\* json!(offset), its text, and serde_json::from_str of that text.
OffsetRoundTrip(value) ==
    [value |-> value,
     text |-> WriteValue(value),
     back |-> OffsetFromText(ParseText(WriteValue(value)))]

OffsetTexts ==
    {<<"0", "x", "7", "b">>, <<"0", "x", "0">>, <<"0", "x", "F", "f">>, <<"7", "b">>,
     <<"0", "x", "0", "x", "7", "b">>, <<"0", "x", "f", "f", "f", "f", "f", "f", "f">>,
     <<"1", "0">>, <<"0", "x", "1", "0">>, <<"0", "x", "0", "x", "0", "x", "1", "0">>,
     <<>>, <<"0", "x">>, <<"0", "x", "7", "g">>, <<"1", "2", " ">>, <<"-", "1">>,
     <<"0", "x", "1", "0", "0", "0", "0", "0", "0", "0", "0",
       "0", "0", "0", "0", "0", "0", "0", "0">>,
     <<"0", "x", "0", "0", "f", "f", "f", "f", "f", "f", "f", "f",
       "f", "f", "f", "f", "f", "f", "f", "f", "f">>}

OffsetValues ==
    {Number(0), Number(2), Number(123), Number(268435455), NegInt(1), NegInt(123),
     Float(<<"1", ".", "5">>), Float(<<"2", ".", "0">>),
     Float(<<"1", "8", "4", "4", "6", "7", "4", "4", "0", "7", "3", "7", "0", "9",
             "5", "5", "1", "6", "1", "6">>),
     Null, Bool(TRUE), Array(<<>>), Array(<<Number(1)>>), Object(<<>>)}
    \cup {String(Str(t)) : t \in OffsetTexts}

OffsetInputs ==
    [op : {"deserialize"}, value : OffsetValues]
    \cup [op : {"serialize"}, offset : {0, 2, 123, 4096, 268435455}]
    \cup [op : {"try_from"}, value : {Str(t) : t \in OffsetTexts}]

\* EntryPointOffset::deserialize
DeserializeOffset ==
    /\ pc = "offset"
    /\ input.op = "deserialize"
    /\ output' = number_or_string(input.value)
    /\ pc' = "offset_done"
    /\ Untouched

\* The `?` of try_from: a ParseIntError becomes StarknetApiError::ParseIntError.
IntoStarknetApiError(r) == IF r.ok THEN r ELSE Err(<<"ParseIntError", r.err>>)

\* EntryPointOffset::try_from(value: String).
EntryPointOffsetTryFrom(value) == IntoStarknetApiError(hex_string_try_into_u64(value))

TryFromString ==
    /\ pc = "offset"
    /\ input.op = "try_from"
    /\ output' = EntryPointOffsetTryFrom(input.value)
    /\ pc' = "offset_done"
    /\ Untouched

\* EntryPointOffset::serialize, and what reads it back.
SerializeOffset ==
    /\ pc = "offset"
    /\ input.op = "serialize"
    /\ output' = OffsetRoundTrip(OffsetToValue(input.offset))
    /\ pc' = "offset_done"
    /\ Untouched

\* BlockStatus with the literals of its two accepted variants exchanged.
BlockStatusLiteralsExchanged ==
    <<<<"Pending", Str(<<"P", "E", "N", "D", "I", "N", "G">>)>>,
      <<"AcceptedOnL2", Str(<<"A", "C", "C", "E", "P", "T", "E", "D", "_", "O", "N", "_", "L", "1">>)>>,
      <<"AcceptedOnL1", Str(<<"A", "C", "C", "E", "P", "T", "E", "D", "_", "O", "N", "_", "L", "2">>)>>,
      <<"Rejected", Str(<<"R", "E", "J", "E", "C", "T", "E", "D">>)>>>>

\* BlockStatus: every variant with its serde(rename) literal.
BlockStatusLiterals ==
    <<<<"Pending", Str(<<"P", "E", "N", "D", "I", "N", "G">>)>>,
      <<"AcceptedOnL2", Str(<<"A", "C", "C", "E", "P", "T", "E", "D", "_", "O", "N", "_", "L", "2">>)>>,
      <<"AcceptedOnL1", Str(<<"A", "C", "C", "E", "P", "T", "E", "D", "_", "O", "N", "_", "L", "1">>)>>,
      <<"Rejected", Str(<<"R", "E", "J", "E", "C", "T", "E", "D">>)>>>>

\* EntryPointType of state.rs: every variant with its serde(rename) literal.
EntryPointTypeLiterals ==
    <<<<"Constructor", Str(<<"C", "O", "N", "S", "T", "R", "U", "C", "T", "O", "R">>)>>,
      <<"External", Str(<<"E", "X", "T", "E", "R", "N", "A", "L">>)>>,
      <<"L1Handler", Str(<<"L", "1", "_", "H", "A", "N", "D", "L", "E", "R">>)>>>>

\* EntryPointType of deprecated_contract_class.rs.
LegacyEntryPointTypeLiterals ==
    <<<<"Constructor", Name.CONSTRUCTOR>>,
      <<"External", Name.EXTERNAL>>,
      <<"L1Handler", Name.L1_HANDLER>>>>

\* FunctionStateMutability
FunctionStateMutabilityLiterals == <<<<"View", Name.view>>>>

EnumLiterals(enum) ==
    CASE enum = "BlockStatus" -> BlockStatusLiterals
      [] enum = "EntryPointType" -> EntryPointTypeLiterals
      [] enum = "deprecated EntryPointType" -> LegacyEntryPointTypeLiterals
      [] enum = "FunctionStateMutability" -> FunctionStateMutabilityLiterals

\* derive(Serialize) of a fieldless enum: the literal of the variant, as a
\* string.
SerializeVariant(literals, variant) ==
    String(literals[CHOOSE i \in 1..Len(literals) : literals[i][1] = variant][2])

\* derive(Deserialize) of a fieldless enum from a string: the first variant
\* with that literal, and an error when there is none.
DeserializeVariant(literals, v) ==
    IF v[1] # "string" THEN Err("invalid type")
    ELSE IF \A i \in 1..Len(literals) : literals[i][2] # v[2] THEN Err("unknown variant")
    ELSE Good(literals[CHOOSE i \in 1..Len(literals) :
                           /\ literals[i][2] = v[2]
                           /\ \A j \in 1..(i - 1) : literals[j][2] # v[2]][1])

\* A variant as a serde_json::Value, and what reads that value back.
VariantRoundTrip(literals, value) ==
    [value |-> value, back |-> DeserializeVariant(literals, value)]

Enums == {"BlockStatus", "EntryPointType", "deprecated EntryPointType",
          "FunctionStateMutability"}

LiteralValues ==
    {String(Str(t)) :
        t \in {<<"P", "E", "N", "D", "I", "N", "G">>,
              <<"A", "C", "C", "E", "P", "T", "E", "D", "_", "O", "N", "_", "L", "2">>,
              <<"A", "C", "C", "E", "P", "T", "E", "D", "_", "O", "N", "_", "L", "1">>,
              <<"R", "E", "J", "E", "C", "T", "E", "D">>,
              <<"C", "O", "N", "S", "T", "R", "U", "C", "T", "O", "R">>,
              <<"E", "X", "T", "E", "R", "N", "A", "L">>,
              <<"L", "1", "_", "H", "A", "N", "D", "L", "E", "R">>,
              <<"v", "i", "e", "w">>,
              <<"p", "e", "n", "d", "i", "n", "g">>,
              <<"E", "x", "t", "e", "r", "n", "a", "l">>,
              <<"V", "I", "E", "W">>,
              <<"L", "1">>, <<>>}}
    \cup {Number(1), Null}

LiteralInputs ==
    UNION {{[op |-> "serialize", enum |-> e, variant |-> EnumLiterals(e)[i][1]] :
                i \in 1..Len(EnumLiterals(e))} : e \in Enums}
    \cup [op : {"deserialize"}, enum : Enums, value : LiteralValues]

\* Serialize of one of the enums, and what reads it back.
SerializeLiteral ==
    /\ pc = "literal"
    /\ input.op = "serialize"
    /\ output' = VariantRoundTrip(EnumLiterals(input.enum),
                                  SerializeVariant(EnumLiterals(input.enum), input.variant))
    /\ pc' = "literal_done"
    /\ Untouched

\* Deserialize of one of the enums.
DeserializeLiteral ==
    /\ pc = "literal"
    /\ input.op = "deserialize"
    /\ output' = DeserializeVariant(EnumLiterals(input.enum), input.value)
    /\ pc' = "literal_done"
    /\ Untouched

\* ThinStateDiffs as a peer could have written them: one with its addresses
\* increasing, two with addresses that decrease.
WireThinStateDiffs ==
    {[EmptyThinStateDiff EXCEPT !.deployed_contracts = <<<<1, 5>>, <<2, 6>>>>,
                                !.nonces = <<<<1, 7>>>>],
     [EmptyThinStateDiff EXCEPT !.deployed_contracts = <<<<2, 5>>, <<1, 6>>>>],
     [EmptyThinStateDiff EXCEPT !.storage_diffs = <<<<3, <<<<1, 9>>>>>>, <<2, <<>>>>>>,
                                !.replaced_classes = <<<<4, 5>>, <<4, 6>>>>]}

\* The bytes that arrive: those ThinStateDiffs written out, one of them cut
\* short, and bytes that are none.
WireInputs ==
    [bytes : {ThinEncode(t) : t \in WireThinStateDiffs}
             \cup {<<>>, <<255>>, <<4, 1>>}]

\* ThinStateDiff::decode on bytes that arrived, no StateDiff at hand.
DecodeWire ==
    /\ pc = "wire"
    /\ output' = ThinDecode(input.bytes)
    /\ pc' = "wire_decoded"
    /\ Untouched

\* The key a felt makes in a JSON object.
FeltKey(f) == FeltToValue(f)[2]

\* The JSON value of a class of state.rs with one entry point.
ClassValue ==
    Object(<< <<Name.sierra_program, Array(<<FeltToValue(1)>>)>>,
              <<Name.entry_points_by_type,
                Object(<< <<Name.EXTERNAL,
                            Array(<<Object(<< <<Name.function_idx, Number(7)>>,
                                              <<Name.selector, FeltToValue(2)>> >>)>>)>> >>)>>,
              <<Name.abi, String(<<97>>)>> >>)

\* The JSON value of a StateDiff with the given members of its six maps.
StateDiffValue(dc, sd, dl, dp, n, r) ==
    Object(<< <<Name.deployed_contracts, dc>>,
              <<Name.storage_diffs, sd>>,
              <<Name.declared_classes, dl>>,
              <<Name.deprecated_declared_classes, dp>>,
              <<Name.nonces, n>>,
              <<Name.replaced_classes, r>> >>)

NoMembers == Object(<<>>)

\* JSON values that are a StateDiff: the empty one, and one with a member
\* in five of its maps.
StateDiffValues ==
    {StateDiffValue(NoMembers, NoMembers, NoMembers, NoMembers, NoMembers, NoMembers),
     StateDiffValue(Object(<< <<FeltKey(1), FeltToValue(5)>> >>),
                    Object(<< <<FeltKey(1), Object(<< <<FeltKey(2), FeltToValue(3)>> >>)>> >>),
                    Object(<< <<FeltKey(4), Array(<<FeltToValue(6), ClassValue>>)>> >>),
                    Object(<< <<FeltKey(7), LegacyToValue(EmptyLegacy, FALSE)>> >>),
                    Object(<< <<FeltKey(1), FeltToValue(1)>> >>),
                    NoMembers)}

\* JSON values that are no entity: a StateDiff whose nonces are an array,
\* an object without the fields, an array.
OtherValues ==
    {StateDiffValue(NoMembers, NoMembers, NoMembers, NoMembers, Array(<<>>), NoMembers),
     NoMembers,
     Array(<<>>)}

\* The texts a decoder is given: of a Program, of a deprecated ContractClass,
\* of a StateDiff, of no entity, and one that is not JSON.
JsonTexts ==
    {WriteValue(v) : v \in StateDiffValues \cup OtherValues
                           \cup {ProgramToValue(EmptyProgram, FALSE),
                                 LegacyToValue(EmptyLegacy, FALSE),
                                 LegacyToValue(LegacyA, FALSE)}}
    \cup {Str(<<"{">>)}

Entities == {"Program", "ContractClass", "StateDiff"}

\* The bytes are an encoded String, or bytes the codec reads no String from.
JsonInputs ==
    [entity : Entities,
     bytes : {EncodeString(t) : t \in JsonTexts} \cup {<<>>, <<8, 255, 255>>},
     preserve_order : BOOLEAN]

\* Program::decode(&mut &bytes[..]).
DecodeJsonProgram ==
    /\ pc = "json"
    /\ input.entity = "Program"
    /\ output' = ProgramDecode(input.bytes, input.preserve_order)
    /\ pc' = "json_decoded"
    /\ Untouched

\* ContractClass::decode(&mut &bytes[..]), of deprecated_contract_class.rs.
DecodeJsonContractClass ==
    /\ pc = "json"
    /\ input.entity = "ContractClass"
    /\ output' = LegacyDecode(input.bytes, input.preserve_order)
    /\ pc' = "json_decoded"
    /\ Untouched

\* StateDiff::decode(&mut &bytes[..]).
DecodeJsonStateDiff ==
    /\ pc = "json"
    /\ input.entity = "StateDiff"
    /\ output' = StateDiffDecode(input.bytes, input.preserve_order)
    /\ pc' = "json_decoded"
    /\ Untouched

\* A ThinStateDiff with one element in each of its six sequences.
WholeThin ==
    [deployed_contracts |-> << <<1, 5>> >>,
     storage_diffs |-> << <<3, << <<1, 9>> >> >> >>,
     declared_classes |-> << <<4, 6>> >>,
     deprecated_declared_classes |-> <<7>>,
     nonces |-> << <<1, 7>> >>,
     replaced_classes |-> << <<2, 5>> >>]

\* The encodings that hold a whole value of the entity.
WholeBytes(entity) ==
    IF entity = "ThinStateDiff"
    THEN {ThinEncode(WholeThin), ThinEncode(EmptyThinStateDiff)}
    ELSE {ClassEncode(ClassA), ClassEncode(EmptyContractClass)}

\* The bytes bs cut short at every point.
Cuts(bs) == {Take(bs, n) : n \in 0..(Len(bs) - 1)}

\* Bytes whose length prefix announces more elements than the bytes after
\* it hold: in an outer sequence, in an inner one, in the last one.
LongBytes(entity) ==
    IF entity = "ThinStateDiff"
    THEN {CompactLen64(2) \o EncodePair(<<1, 5>>) \o <<0, 0, 0, 0, 0>>,
          <<0>> \o CompactLen64(1) \o EncodeFelt(3) \o CompactLen64(3)
              \o EncodePair(<<1, 9>>) \o <<0, 0, 0, 0>>,
          <<0, 0, 0>> \o CompactLen64(5) \o EncodeFelt(7) \o <<0, 0>>,
          <<0, 0, 0, 0, 0>> \o CompactLen64(16384) \o EncodePair(<<2, 5>>)}
    ELSE {CompactLen32(3) \o EncodeFelt(1) \o <<0, 0>>,
          <<0>> \o CompactLen32(1) \o <<External>> \o CompactLen32(2)
              \o EncodeEntryPoint(<<7, 1>>) \o <<0>>,
          <<0, 0>> \o CompactLen32(5) \o <<97, 98>>}

\* Bytes with a compact integer of the four-byte-or-more class whose width
\* is none a u32 has: five bytes, eight bytes, sixty-seven bytes.
WidthBytes(entity) ==
    IF entity = "ThinStateDiff"
    THEN {<<7, 1, 0, 0, 0, 1>>,
          <<0, 0, 19, 1, 0, 0, 0, 0, 0, 0, 1, 0, 0, 0>>,
          <<0, 0, 0, 0, 0, 255>>}
    ELSE {<<7, 1, 0, 0, 0, 1>>,
          <<0, 0, 19, 1, 0, 0, 0, 0, 0, 0, 1>>,
          <<0, 4, External, 255>>}

\* The six sequences as a peer could write them, with a key that comes
\* again: at once, after another key, three times, in an inner sequence.
RepeatedSequences ==
    {[deployed_contracts |-> << <<1, 5>>, <<2, 6>>, <<1, 7>> >>,
      storage_diffs |-> << <<3, << <<1, 9>>, <<1, 8>> >> >>,
                           <<4, <<>> >>,
                           <<3, << <<2, 2>> >> >> >>,
      declared_classes |-> << <<4, 6>>, <<4, 7>> >>,
      deprecated_declared_classes |-> <<>>,
      nonces |-> <<>>,
      replaced_classes |-> <<>>],
     [deployed_contracts |-> <<>>,
      storage_diffs |-> <<>>,
      declared_classes |-> <<>>,
      deprecated_declared_classes |-> <<7, 7>>,
      nonces |-> << <<1, 1>>, <<1, 2>>, <<1, 3>> >>,
      replaced_classes |-> << <<2, 5>>, <<1, 5>>, <<2, 6>> >>]}

\* The three fields of a ContractClass as a peer could write them, External
\* coming twice.
RepeatedClass ==
    [sierra_program |-> <<1>>,
     entry_points_by_type |-> << <<External, << <<7, 1>> >> >>,
                                 <<Constructor, <<>> >>,
                                 <<External, << <<7, 2>>, <<7, 1>> >> >> >>,
     abi |-> <<97>>]

\* Bytes in which a map sequence holds a key more than once.
RepeatedBytes(entity) ==
    IF entity = "ThinStateDiff"
    THEN {ThinEncode(x) : x \in RepeatedSequences}
    ELSE {ClassEncode(RepeatedClass)}

BytesEntities == {"ThinStateDiff", "ContractClass"}

\* The bytes given to a decoder, with what was done to them.
BytesInputs ==
    UNION {[entity : {e}, kind : {"whole"}, bytes : WholeBytes(e)]
           \cup [entity : {e}, kind : {"cut"},
                 bytes : UNION {Cuts(bs) : bs \in WholeBytes(e)}]
           \cup [entity : {e}, kind : {"long"}, bytes : LongBytes(e)]
           \cup [entity : {e}, kind : {"width"}, bytes : WidthBytes(e)]
           \cup [entity : {e}, kind : {"repeated"}, bytes : RepeatedBytes(e)] :
           e \in BytesEntities}

\* ThinStateDiff::decode(&mut &bytes[..]).
DecodeThinBytes ==
    /\ pc = "bytes"
    /\ input.entity = "ThinStateDiff"
    /\ output' = ThinDecode(input.bytes)
    /\ pc' = "bytes_decoded"
    /\ Untouched

\* ContractClass::decode(&mut &bytes[..]).
DecodeClassBytes ==
    /\ pc = "bytes"
    /\ input.entity = "ContractClass"
    /\ output' = ClassDecode(input.bytes)
    /\ pc' = "bytes_decoded"
    /\ Untouched

\* The most calls of from_state_diff in one run.
MaxCalls == 3

\* The StateDiffs the calls are given: two that declare the class hash 2
\* (with another compiled hash and another body) and deprecate the hash 3,
\* and one that declares nothing.
CallDiffs ==
    {[EmptyStateDiff EXCEPT !.deployed_contracts = << <<1, 8>> >>,
                            !.declared_classes = << <<2, <<20, ClassA>> >> >>,
                            !.deprecated_declared_classes = << <<3, "legacyA">> >>],
     [EmptyStateDiff EXCEPT !.declared_classes = << <<4, <<40, ClassA>> >>,
                                                    <<2, <<21, ClassB>> >> >>,
                            !.deprecated_declared_classes = << <<3, "legacyB">> >>,
                            !.nonces = << <<1, 1>> >>],
     [EmptyStateDiff EXCEPT !.replaced_classes = << <<1, 9>> >>]}

\* The StateDiffs of the calls of a run, one for each call.
CallInputs == UNION {[diffs : [1..n -> CallDiffs]] : n \in 1..MaxCalls}

\* The calls of a run: each call has returned nothing yet.
NoneReturned(diffs) == [i \in 1..Len(diffs) |-> <<>>]

\* ThinStateDiff::from_state_diff(diffs[i]), one component of the returned
\* tuple at a step; the steps of the calls come in any order.
FromStateDiffStep ==
    /\ pc = "calls"
    /\ \E i \in 1..Len(input.diffs) :
         /\ Len(output[i]) < 3
         /\ output' = [output EXCEPT
                          ![i] = Append(@, FromStateDiff(input.diffs[i])[Len(@) + 1])]
    /\ pc' = "calls"
    /\ Untouched

(***************************************************************************)
(* BlockNumber and StateNumber.  A u64 is held as its eight little-endian  *)
(* bytes, so that the numbers at the upper end of the range are there.     *)
(***************************************************************************)

U64Zero == [i \in 1..8 |-> 0]
U64Max == [i \in 1..8 |-> 255]

\* How many of the low bytes of x are b.
LowRun(x, b) ==
    IF \A i \in 1..Len(x) : x[i] = b THEN Len(x)
    ELSE (CHOOSE i \in 1..Len(x) : x[i] # b /\ \A j \in 1..(i - 1) : x[j] = b) - 1

\* x.wrapping_add(1): the carry goes through the low bytes that are 255.
WrappingInc(x) ==
    [i \in 1..Len(x) |->
        IF i <= LowRun(x, 255) THEN 0
        ELSE IF i = LowRun(x, 255) + 1 THEN x[i] + 1
        ELSE x[i]]

\* x.wrapping_sub(1): the borrow goes through the low bytes that are 0.
WrappingDec(x) ==
    [i \in 1..Len(x) |->
        IF i <= LowRun(x, 0) THEN 255
        ELSE IF i = LowRun(x, 0) + 1 THEN x[i] - 1
        ELSE x[i]]

\* x < y, as numbers: the highest byte that differs decides.
U64Less(x, y) ==
    \E i \in 1..Len(x) : x[i] < y[i] /\ \A j \in (i + 1)..Len(x) : x[j] = y[j]

U64LessEq(x, y) == x = y \/ U64Less(x, y)

\* What a call that may overflow comes to: it returns a value, or it panics.
Returns_(v) == [panicked |-> FALSE, value |-> v]
Panics == [panicked |-> TRUE, value |-> <<>>]

\* self.0 + 1: at u64::MAX a build with overflow checks panics and a build
\* without them wraps to 0.
AddOne(x) ==
    IF x = U64Max THEN {Panics, Returns_(WrappingInc(x))} ELSE {Returns_(WrappingInc(x))}

\* BlockNumber::next: what the builds come to.
next(self) == AddOne(self)

\* BlockNumber::prev.
prev(self) == IF self = U64Zero THEN None ELSE Some(WrappingDec(self))

\* A slip: the range is closed (self.0..=up_to.0).
RECURSIVE iter_up_to_inclusive(_, _)
iter_up_to_inclusive(self, up_to) ==
    IF U64Less(up_to, self) THEN <<>>
    ELSE IF self = up_to THEN <<self>>
    ELSE <<self>> \o iter_up_to_inclusive(WrappingInc(self), up_to)

\* BlockNumber::iter_up_to: the range self.0..up_to.0, each number as a
\* BlockNumber.
RECURSIVE iter_up_to(_, _)
iter_up_to(self, up_to) ==
    IF ~U64Less(self, up_to) THEN <<>>
    ELSE <<self>> \o iter_up_to(WrappingInc(self), up_to)

\* StateNumber::right_before_block.
right_before_block(block_number) == block_number

\* StateNumber::right_after_block: block_number.next() may overflow.
right_after_block(block_number) == next(block_number)

\* A slip: the state right before a block is not before it (<).
is_before_strictly(self, block_number) == U64Less(self, block_number)

\* StateNumber::is_before.
is_before(self, block_number) == U64LessEq(self, block_number)

\* StateNumber::is_after.
is_after(self, block_number) == ~is_before(self, block_number)

\* The longest range a run iterates.
MaxSpan == 3

\* x + k for k from 0 to n, as far as the range of u64 goes.
RECURSIVE UpFrom(_, _)
UpFrom(x, n) ==
    IF n = 0 \/ x = U64Max THEN {x} ELSE {x} \cup UpFrom(WrappingInc(x), n - 1)

\* The numbers of the runs in increasing order: 0, 1, 2, the numbers around
\* 2^8, 2^16 and 2^32, and the three highest.
U64Ordered ==
    <<<<0, 0, 0, 0, 0, 0, 0, 0>>,
      <<1, 0, 0, 0, 0, 0, 0, 0>>,
      <<2, 0, 0, 0, 0, 0, 0, 0>>,
      <<255, 0, 0, 0, 0, 0, 0, 0>>,
      <<0, 1, 0, 0, 0, 0, 0, 0>>,
      <<1, 1, 0, 0, 0, 0, 0, 0>>,
      <<255, 255, 0, 0, 0, 0, 0, 0>>,
      <<0, 0, 1, 0, 0, 0, 0, 0>>,
      <<1, 0, 1, 0, 0, 0, 0, 0>>,
      <<255, 255, 255, 255, 0, 0, 0, 0>>,
      <<0, 0, 0, 0, 1, 0, 0, 0>>,
      <<1, 0, 0, 0, 1, 0, 0, 0>>,
      <<253, 255, 255, 255, 255, 255, 255, 255>>,
      <<254, 255, 255, 255, 255, 255, 255, 255>>,
      <<255, 255, 255, 255, 255, 255, 255, 255>>>>

U64s == Range(U64Ordered)

\* The calls on a BlockNumber and on a StateNumber.  A call with one
\* argument has it in arg; self is 0 then.  A range is iterated when it is
\* empty or holds MaxSpan numbers at most.
NumberInputs ==
    [op : {"next", "prev", "prev_of_next"}, self : U64s, arg : {U64Zero}]
    \cup [op : {"right_before_block", "right_after_block"}, self : {U64Zero}, arg : U64s]
    \cup [op : {"is_before", "is_after"}, self : U64s, arg : U64s]
    \cup UNION {[op : {"iter_up_to"}, self : {a},
                 arg : {b \in U64s : U64LessEq(b, a)} \cup UpFrom(a, MaxSpan)] : a \in U64s}

\* block_number.next().
CallNext ==
    /\ pc = "number"
    /\ input.op = "next"
    /\ output' \in next(input.self)
    /\ pc' = "number_done"
    /\ Untouched

\* block_number.prev().
CallPrev ==
    /\ pc = "number"
    /\ input.op = "prev"
    /\ output' = prev(input.self)
    /\ pc' = "number_done"
    /\ Untouched

\* block_number.next().prev().
CallPrevOfNext ==
    /\ pc = "number"
    /\ input.op = "prev_of_next"
    /\ \E r \in next(input.self) :
         output' = IF r.panicked THEN r ELSE Returns_(prev(r.value))
    /\ pc' = "number_done"
    /\ Untouched

\* block_number.iter_up_to(up_to).collect().
CallIterUpTo ==
    /\ pc = "number"
    /\ input.op = "iter_up_to"
    /\ output' = iter_up_to(input.self, input.arg)
    /\ pc' = "number_done"
    /\ Untouched

\* StateNumber::right_before_block(block_number).
CallRightBeforeBlock ==
    /\ pc = "number"
    /\ input.op = "right_before_block"
    /\ output' = right_before_block(input.arg)
    /\ pc' = "number_done"
    /\ Untouched

\* StateNumber::right_after_block(block_number).
CallRightAfterBlock ==
    /\ pc = "number"
    /\ input.op = "right_after_block"
    /\ output' \in right_after_block(input.arg)
    /\ pc' = "number_done"
    /\ Untouched

\* state_number.is_before(block_number).
CallIsBefore ==
    /\ pc = "number"
    /\ input.op = "is_before"
    /\ output' = is_before(input.self, input.arg)
    /\ pc' = "number_done"
    /\ Untouched

\* state_number.is_after(block_number).
CallIsAfter ==
    /\ pc = "number"
    /\ input.op = "is_after"
    /\ output' = is_after(input.self, input.arg)
    /\ pc' = "number_done"
    /\ Untouched

\* The arguments a run that starts at p is given.
Inputs(p) ==
    CASE p = "tag" -> TagInputs
      [] p = "verify" -> VerifyInputs
      [] p = "offset" -> OffsetInputs
      [] p = "literal" -> LiteralInputs
      [] p = "wire" -> WireInputs
      [] p = "json" -> JsonInputs
      [] p = "bytes" -> BytesInputs
      [] p = "calls" -> CallInputs
      [] p = "number" -> NumberInputs
      [] OTHER -> {<<>>}

(***************************************************************************)
(* The specification.                                                      *)
(***************************************************************************)

\* A StateDiff starts empty and is filled by the producer, or is one of the
\* two filled ones.  The writer's width is the length of uint; the reader's is width: u32 and
\* u64 read their own writer, and the Vec decoder reads a u64 length as u32.
Init ==
    /\ pc \in {"build", "class_build", "legacy_build", "uint", "tag", "verify", "offset",
              "literal", "wire", "json", "bytes", "calls", "number"}
    /\ IF pc = "build"
       THEN diff \in {EmptyStateDiff, TestStateDiff, UnsortedStateDiff}
       ELSE diff = EmptyStateDiff
    /\ thin = EmptyThinStateDiff
    /\ declared = <<>>
    /\ deprecated = <<>>
    /\ IF pc = "class_build"
       THEN class \in {EmptyContractClass, ClassA}
       ELSE class = EmptyContractClass
    /\ IF pc = "legacy_build"
       THEN legacy \in {EmptyLegacy, LegacyA}
       ELSE legacy = EmptyLegacy
    /\ IF pc = "legacy_build" THEN preserve_order \in BOOLEAN ELSE preserve_order = FALSE
    /\ IF pc = "uint"
       THEN /\ uint \in Uints(4) \cup Uints(8)
            /\ width \in {4, 8}
            /\ width <= Len(uint)
            /\ rest \in Rests
       ELSE /\ uint = <<0, 0, 0, 0>>
            /\ width = 4
            /\ rest = <<>>
    /\ encoded = <<>>
    /\ decoded = Fail
    /\ reencoded = <<>>
    /\ input \in Inputs(pc)
    /\ output = IF pc = "calls" THEN NoneReturned(input.diffs) ELSE <<>>

Next ==
    \/ InsertDeployedContract
    \/ InsertStorageDiff
    \/ InsertDeclaredClass
    \/ InsertDeprecatedDeclaredClass
    \/ InsertNonce
    \/ InsertReplacedClass
    \/ Reduce
    \/ Convert
    \/ EncodeThin
    \/ DecodeThin
    \/ ReencodeThin
    \/ PushSierra
    \/ PushEntryPoint
    \/ PushAbi
    \/ EncodeClass
    \/ DecodeClass
    \/ ReencodeClass
    \/ PushLegacyAbi
    \/ SetProgramField
    \/ PushLegacyEntryPoint
    \/ EncodeLegacy
    \/ DecodeLegacy
    \/ EncodeUint
    \/ DecodeUint
    \/ EncodeTag
    \/ DecodeTag
    \/ DefaultTag
    \/ VerifyMessageHashSignature
    \/ VerifyBlockSignature
    \/ DeserializeOffset
    \/ SerializeOffset
    \/ TryFromString
    \/ SerializeLiteral
    \/ DeserializeLiteral
    \/ DecodeWire
    \/ DecodeJsonProgram
    \/ DecodeJsonContractClass
    \/ DecodeJsonStateDiff
    \/ DecodeThinBytes
    \/ DecodeClassBytes
    \/ FromStateDiffStep
    \/ CallNext
    \/ CallPrev
    \/ CallPrevOfNext
    \/ CallIterUpTo
    \/ CallRightBeforeBlock
    \/ CallRightAfterBlock
    \/ CallIsBefore
    \/ CallIsAfter

Spec == Init /\ [][Next]_vars

(***************************************************************************)
(* The reducer's properties.                                               *)
(***************************************************************************)

Disjoint(a, b) == a \cap b = {}

\* C1: after from_state_diff, thin.declared_classes and the declared side
\* table have the keys of diff.declared_classes in the same iteration order,
\* and for every entry hash -> (compiled_hash, body) the thin diff maps hash
\* to compiled_hash and the side table maps hash to body.
C1_DeclaredClassesSplit ==
    pc = "reduced" =>
        /\ Keys(thin.declared_classes) = Keys(diff.declared_classes)
        /\ Keys(declared) = Keys(diff.declared_classes)
        /\ \A i \in 1..Len(diff.declared_classes) :
             LET hash == diff.declared_classes[i][1]
                 compiled_hash == diff.declared_classes[i][2][1]
                 body == diff.declared_classes[i][2][2]
             IN /\ Get(thin.declared_classes, hash) = compiled_hash
                /\ Get(declared, hash) = body

\* Two classes were declared, the larger hash first, and the diff was reduced.
C1_Witness ==
    /\ pc = "reduced"
    /\ Keys(diff.declared_classes) = <<2, 1>>
    /\ diff.declared_classes[1][2] # diff.declared_classes[2][2]

\* C2: after from_state_diff, thin.deprecated_declared_classes is the list of
\* keys of diff.deprecated_declared_classes in iteration order (same length,
\* none dropped or repeated), and the third component is the map itself.
C2_DeprecatedClassesSplit ==
    pc = "reduced" =>
        /\ thin.deprecated_declared_classes = Keys(diff.deprecated_declared_classes)
        /\ Len(thin.deprecated_declared_classes) = Len(diff.deprecated_declared_classes)
        /\ \A i, j \in 1..Len(thin.deprecated_declared_classes) :
             thin.deprecated_declared_classes[i] = thin.deprecated_declared_classes[j]
                => i = j
        /\ deprecated = diff.deprecated_declared_classes

\* Two legacy classes were declared, the larger hash first.
C2_Witness ==
    /\ pc = "reduced"
    /\ Keys(diff.deprecated_declared_classes) = <<2, 1>>
    /\ thin.deprecated_declared_classes = <<2, 1>>

\* C3: from_state_diff moves deployed_contracts, storage_diffs, nonces and
\* replaced_classes unchanged, entry for entry and in the same order, and
\* From<StateDiff> returns the first component of from_state_diff.
C3_OtherFieldsUnchanged ==
    /\ pc \in {"reduced", "converted"} =>
        /\ thin.deployed_contracts = diff.deployed_contracts
        /\ thin.storage_diffs = diff.storage_diffs
        /\ thin.nonces = diff.nonces
        /\ thin.replaced_classes = diff.replaced_classes
    /\ pc = "converted" => thin = FromStateDiff(diff)[1]

\* A deployment and a replacement that differ, moved by From.
C3_Witness ==
    /\ pc = "converted"
    /\ Len(diff.deployed_contracts) = 1
    /\ Len(diff.replaced_classes) = 1
    /\ thin.deployed_contracts # thin.replaced_classes

\* C4: when the declared and the deprecated key sets of the StateDiff are
\* disjoint, the two hash sets of the thin diff are disjoint, and so are the
\* key sets of the two side tables.
C4_DisjointnessPreserved ==
    (/\ pc = "reduced"
     /\ Disjoint(KeySet(diff.declared_classes), KeySet(diff.deprecated_declared_classes)))
    => /\ Disjoint(KeySet(thin.declared_classes), Range(thin.deprecated_declared_classes))
       /\ Disjoint(KeySet(declared), KeySet(deprecated))

\* One class of each generation, under different hashes.
C4_Witness ==
    /\ pc = "reduced"
    /\ Len(diff.declared_classes) = 1
    /\ Len(diff.deprecated_declared_classes) = 1
    /\ Disjoint(KeySet(diff.declared_classes), KeySet(diff.deprecated_declared_classes))

(***************************************************************************)
(* The codecs' properties.                                                 *)
(***************************************************************************)

\* C5: decoding the encoding of a ThinStateDiff succeeds, consumes all the
\* bytes and yields the same value: every map, each inner storage map and
\* the deprecated list have the entries of the original in the original
\* iteration order, sorted or not.
C5_ThinRoundTrip ==
    pc \in {"decoded", "reencoded"} =>
        /\ decoded.ok
        /\ decoded.rest = <<>>
        /\ decoded.val.deployed_contracts = thin.deployed_contracts
        /\ Keys(decoded.val.storage_diffs) = Keys(thin.storage_diffs)
        /\ \A i \in 1..Len(thin.storage_diffs) :
             decoded.val.storage_diffs[i][2] = thin.storage_diffs[i][2]
        /\ decoded.val.declared_classes = thin.declared_classes
        /\ decoded.val.deprecated_declared_classes = thin.deprecated_declared_classes
        /\ decoded.val.nonces = thin.nonces
        /\ decoded.val.replaced_classes = thin.replaced_classes

\* A diff with every map filled in decreasing key order was decoded.
C5_Witness ==
    /\ pc = "decoded"
    /\ Keys(thin.deployed_contracts) = <<3, 1>>
    /\ Keys(thin.storage_diffs) = <<18, 13>>
    /\ Keys(thin.storage_diffs[1][2]) = <<16, 14>>
    /\ thin.deprecated_declared_classes = <<5, 3>>

\* C6: decoding the bytes of a ContractClass returns that ContractClass, with
\* the order of the program, of the entry-point types, of every entry-point
\* list and the abi as they were, and nothing left over; decoding the bytes of
\* a deprecated ContractClass returns a deprecated ContractClass equal to it.
C6_ClassRoundTrip ==
    /\ pc = "class_decoded" => decoded = Ok(class, <<>>)
    /\ pc = "legacy_decoded" =>
          /\ decoded.ok
          /\ decoded.rest = <<>>
          /\ LegacyEq(decoded.val, legacy)

\* A deprecated ContractClass with an abi, a program and entry points went
\* through the codec of a build with a sorted Map, and came back equal though
\* its entry-point types are now in another order.
C6_Witness ==
    /\ pc = "legacy_decoded"
    /\ ~preserve_order
    /\ legacy.abi # None
    /\ Keys(legacy.entry_points_by_type) = <<L1Handler, Constructor>>
    /\ decoded.ok
    /\ Keys(decoded.val.entry_points_by_type) = <<Constructor, L1Handler>>

\* C7: reading back a compact integer returns the number written and leaves
\* exactly the bytes that followed it, for a u32 read as u32, a u64 read as
\* u64, and a length written as u64 and read as u32 by the Vec decoder
\* (lengths are below 2^32).
C7_CompactRoundTrip ==
    (/\ pc = "uint_decoded"
     /\ ZeroFrom(uint, width + 1))
    => /\ decoded.ok
       /\ decoded.val = Take(uint, width)
       /\ decoded.rest = rest

\* 2^30 was written as u64, followed by two bytes, and read back.
C7_Witness ==
    /\ pc = "uint_decoded"
    /\ uint = <<0, 0, 0, 64, 0, 0, 0, 0>>
    /\ rest = <<255, 1>>
    /\ decoded.ok

\* Whether the little-endian bytes a hold a number below the one in b
\* (of the same length).
Below(a, b) ==
    \E i \in 1..Len(a) :
        /\ a[i] < b[i]
        /\ \A j \in (i + 1)..Len(a) : a[j] = b[j]

\* The bytes CompactEncode wrote: encoded without the bytes that follow.
Written == Take(encoded, Len(encoded) - Len(rest))

\* C8: the smallest class is used, tagged in the two low bits of the first
\* byte: below 64 one byte (mode 0), below 16384 two bytes (mode 1), below
\* 2^30 four bytes (mode 2), from 2^30 on mode 3: a byte counting the
\* bytes that follow less four, then the little-endian bytes up to the top
\* non-zero one.
C8_MinimalWidthClass ==
    pc = "uint_encoded" =>
        LET w == Len(uint)
            mode == encoded[1] % 4
        IN /\ Drop(encoded, Len(encoded) - Len(rest)) = rest
           /\ Below(uint, LEBytes(64, w)) <=> (mode = 0 /\ Len(Written) = 1)
           /\ (~Below(uint, LEBytes(64, w)) /\ Below(uint, LEBytes(16384, w)))
                <=> (mode = 1 /\ Len(Written) = 2)
           /\ (~Below(uint, LEBytes(16384, w)) /\ Below(uint, LEBytes(1073741824, w)))
                <=> (mode = 2 /\ Len(Written) = 4)
           /\ ~Below(uint, LEBytes(1073741824, w)) <=>
                (/\ mode = 3
                 /\ Len(Written) = 1 + (encoded[1] \div 4) + 4
                 /\ Drop(Written, 1) = Take(uint, Len(Written) - 1)
                 /\ ZeroFrom(uint, Len(Written))
                 /\ (Len(Written) = 5 \/ Written[Len(Written)] # 0))

\* The boundary 16383 / 16384: the first number of the four-byte class.
C8_Witness ==
    /\ pc = "uint_encoded"
    /\ uint = <<0, 64, 0, 0, 0, 0, 0, 0>>
    /\ encoded[1] % 4 = 2

\* A cursor over the written bytes: what is left, and whether all that was
\* expected so far was found.
Cursor(bs) == [ok |-> TRUE, rest |-> bs]

\* The cursor after the bytes p, which must come next.
Expect(c, p) ==
    IF c.ok /\ Len(c.rest) >= Len(p) /\ Take(c.rest, Len(p)) = p
    THEN Cursor(Drop(c.rest, Len(p)))
    ELSE [ok |-> FALSE, rest |-> <<>>]

\* The cursor after a compact integer, which must be n.
ExpectedLen(n, l) ==
    IF l.ok /\ l.val = LEBytes(n, 8) THEN Cursor(l.rest) ELSE [ok |-> FALSE, rest |-> <<>>]

ExpectLen(c, n) ==
    IF c.ok THEN ExpectedLen(n, CompactDecode(c.rest, 8)) ELSE c

\* The cursor after the field elements fs, one after the other; a cursor
\* that failed stays as it is.
RECURSIVE ExpectFelts(_, _)
ExpectFelts(c, fs) ==
    IF ~c.ok \/ fs = <<>> THEN c ELSE ExpectFelts(Expect(c, EncodeFelt(Head(fs))), Tail(fs))

\* The cursor after the (key, value) pairs of m in iteration order.
RECURSIVE ExpectPairs(_, _)
ExpectPairs(c, m) ==
    IF ~c.ok \/ m = <<>>
    THEN c
    ELSE ExpectPairs(ExpectFelts(c, <<Head(m)[1], Head(m)[2]>>), Tail(m))

\* The cursor after the storage diffs: each the address, the compact inner
\* length and the inner pairs.
RECURSIVE ExpectStorageDiffs(_, _)
ExpectStorageDiffs(c, m) ==
    IF ~c.ok \/ m = <<>>
    THEN c
    ELSE ExpectStorageDiffs(
            ExpectPairs(ExpectLen(ExpectFelts(c, <<Head(m)[1]>>), Len(Head(m)[2])),
                        Head(m)[2]),
            Tail(m))

\* C9: the encoding of a ThinStateDiff is six length-prefixed sequences in
\* the order deployed_contracts, storage_diffs, declared_classes,
\* deprecated_declared_classes, nonces, replaced_classes, each the compact
\* length and the elements in iteration order, and nothing else.
C9_ThinWireLayout ==
    pc = "encoded" =>
        LET c1 == ExpectPairs(ExpectLen(Cursor(encoded), Len(thin.deployed_contracts)),
                              thin.deployed_contracts)
            c2 == ExpectStorageDiffs(ExpectLen(c1, Len(thin.storage_diffs)),
                                     thin.storage_diffs)
            c3 == ExpectPairs(ExpectLen(c2, Len(thin.declared_classes)),
                              thin.declared_classes)
            c4 == ExpectFelts(ExpectLen(c3, Len(thin.deprecated_declared_classes)),
                              thin.deprecated_declared_classes)
            c5 == ExpectPairs(ExpectLen(c4, Len(thin.nonces)), thin.nonces)
            c6 == ExpectPairs(ExpectLen(c5, Len(thin.replaced_classes)),
                              thin.replaced_classes)
        IN c6.ok /\ c6.rest = <<>>

\* The encoding of the unsorted diff, every sequence non-empty.
C9_Witness ==
    /\ pc = "encoded"
    /\ Keys(thin.deployed_contracts) = <<3, 1>>
    /\ Keys(thin.nonces) = <<7, 5>>
    /\ thin.deprecated_declared_classes = <<5, 3>>
    /\ Len(encoded) > 6

\* C10: encoding the decoded value again gives the same bytes, for a
\* ThinStateDiff and for a ContractClass; and a map of two entries written
\* in the other insertion order gives other bytes.
C10_ByteStableRoundTrip ==
    /\ pc \in {"reencoded", "class_reencoded"} => reencoded = encoded
    /\ (pc = "encoded" /\ Len(thin.deployed_contracts) = 2) =>
          ThinEncode([thin EXCEPT !.deployed_contracts = Reverse(@)]) # encoded
    /\ (pc = "class_encoded" /\ Len(class.entry_points_by_type) = 2) =>
          ClassEncode([class EXCEPT !.entry_points_by_type = Reverse(@)]) # encoded

\* A ThinStateDiff with two deployments, the larger address first, encoded,
\* decoded and encoded again.
C10_Witness ==
    /\ pc = "reencoded"
    /\ Keys(thin.deployed_contracts) = <<2, 1>>
    /\ Len(reencoded) > 6

\* C11: in both generations EntryPointType is written as one byte, 0 for
\* Constructor, 1 for External and 2 for L1Handler; the bytes 0, 1 and 2 are
\* read back as those variants; no input and any other first byte are
\* refused and give no variant, as in the decoder of a ContractClass; and the
\* default is External.
C11_EntryPointTypeTags ==
    pc = "tag_done" =>
        /\ input.op = "encode" =>
              output = CASE input.variant = "Constructor" -> <<0>>
                         [] input.variant = "External" -> <<1>>
                         [] input.variant = "L1Handler" -> <<2>>
        /\ input.op = "decode" =>
              /\ output.ok = (input.bytes # <<>> /\ input.bytes[1] \in {0, 1, 2})
              /\ output.ok =>
                    /\ output.val = CASE input.bytes[1] = 0 -> "Constructor"
                                      [] input.bytes[1] = 1 -> "External"
                                      [] input.bytes[1] = 2 -> "L1Handler"
                    /\ output.rest = Tail(input.bytes)
              /\ ~output.ok => output = Fail
              /\ Decode(EntryPointTypeT, input.bytes).ok = output.ok
        /\ input.op = "default" => output = "External"

\* The tag byte 3 was given to the decoder of the legacy EntryPointType, which
\* refused it.
C11_Witness ==
    /\ pc = "tag_done"
    /\ input.op = "decode"
    /\ input.generation = "legacy"
    /\ input.bytes = <<3>>
    /\ ~output.ok

\* C12: verify_block_signature gives starknet_crypto::verify the sequencer's
\* public key, the r and the s of the signature, and as message the hash of
\* the block hash followed by the state diff commitment; when the two differ,
\* that message is not the hash of the commitment followed by the block hash.
C12_MessageIsBlockHashThenCommitment ==
    (pc = "verified" /\ input.op = "block") =>
        /\ output.call =
              [public_key |-> input.sequencer_pub_key,
               message |-> poseidon_hash_array(<<input.block_hash,
                                                 input.state_diff_commitment>>),
               r |-> input.signature.r,
               s |-> input.signature.s]
        /\ input.block_hash # input.state_diff_commitment =>
              output.call.message #
                  poseidon_hash_array(<<input.state_diff_commitment, input.block_hash>>)

\* A block whose hash is not its commitment was verified.
C12_Witness ==
    /\ pc = "verified"
    /\ input.op = "block"
    /\ input.block_hash = 51
    /\ input.state_diff_commitment = 42
    /\ output.call.message = <<"poseidon_hash_array", <<51, 42>>>>

\* C13: when starknet_crypto::verify answers a boolean, both
\* verify_message_hash_signature and verify_block_signature return Ok of that
\* boolean, Ok(false) for a signature that does not match; they return an
\* error only when it answers an error, and an error carries no boolean.
C13_NonMatchingIsOkFalse ==
    pc = "verified" =>
        /\ input.answer.ok => output.result = [ok |-> TRUE, val |-> input.answer.val]
        /\ ~input.answer.ok =>
              /\ ~output.result.ok
              /\ "val" \notin DOMAIN output.result
        /\ ~output.result.ok => ~input.answer.ok

\* verify_block_signature returned Ok(false).
C13_Witness ==
    /\ pc = "verified"
    /\ input.op = "block"
    /\ input.answer = [ok |-> TRUE, val |-> FALSE]
    /\ output.result = [ok |-> TRUE, val |-> FALSE]

\* C14: the error of verify_message_hash_signature names the argument
\* starknet_crypto::verify refused and carries it: the public key passed in,
\* the message hash (for verify_block_signature the hash it computed), the r
\* or the s of the signature; verify_block_signature returns that same error
\* together with the block hash it was called with.
C14_ErrorCarriesArgument ==
    (pc = "verified" /\ ~input.answer.ok) =>
        /\ input.op = "message" =>
              output.result =
                  [ok |-> FALSE,
                   err |-> CASE input.answer.err = "InvalidPublicKey" ->
                                    <<"InvalidPublicKey", input.public_key>>
                             [] input.answer.err = "InvalidMessageHash" ->
                                    <<"InvalidMessageHash", input.message_hash>>
                             [] input.answer.err = "InvalidR" ->
                                    <<"InvalidR", input.signature.r>>
                             [] input.answer.err = "InvalidS" ->
                                    <<"InvalidS", input.signature.s>>]
        /\ input.op = "block" =>
              /\ ~output.result.ok
              /\ output.result.err.block_hash = input.block_hash
              /\ output.result.err.error =
                    CASE input.answer.err = "InvalidPublicKey" ->
                             <<"InvalidPublicKey", input.sequencer_pub_key>>
                      [] input.answer.err = "InvalidMessageHash" ->
                             <<"InvalidMessageHash", output.call.message>>
                      [] input.answer.err = "InvalidR" -> <<"InvalidR", input.signature.r>>
                      [] input.answer.err = "InvalidS" -> <<"InvalidS", input.signature.s>>

\* verify_block_signature was refused for the s of the signature.
C14_Witness ==
    /\ pc = "verified"
    /\ input.op = "block"
    /\ input.answer = [ok |-> FALSE, err |-> "InvalidS"]
    /\ input.signature.s = 32
    /\ output.result.err = [block_hash |-> input.block_hash, error |-> <<"InvalidS", 32>>]

\* C15: an EntryPointOffset read from a JSON number n that is a u64 is n;
\* read from a string of "0x" and hexadecimal digits it is their value, 123
\* for "0x7b"; written, it is always the string of "0x" and its lowercase
\* hexadecimal digits, "0x7b" for 123, never a number; and reading what was
\* written gives the offset back.
C15_OffsetAcceptBothEmitHex ==
    pc = "offset_done" =>
        /\ (input.op = "deserialize" /\ input.value[1] = "number" /\ input.value[2] >= 0) =>
              output = [ok |-> TRUE, val |-> input.value[2]]
        /\ (input.op = "deserialize" /\ input.value = <<"string", <<48, 120, 55, 98>>>>) =>
              output = [ok |-> TRUE, val |-> 123]
        /\ (input.op = "deserialize" /\ input.value = <<"string", <<48, 120, 48>>>>) =>
              output = [ok |-> TRUE, val |-> 0]
        /\ (input.op = "deserialize" /\ input.value = <<"string", <<48, 120, 70, 102>>>>) =>
              output = [ok |-> TRUE, val |-> 255]
        /\ (input.op = "deserialize"
              /\ input.value = <<"string", <<48, 120, 102, 102, 102, 102, 102, 102, 102>>>>) =>
              output = [ok |-> TRUE, val |-> 268435455]
        /\ input.op = "serialize" =>
              /\ output.value[1] = "string"
              /\ Len(output.value[2]) >= 3
              /\ SubSeq(output.value[2], 1, 2) = <<48, 120>>
              /\ \A i \in 3..Len(output.value[2]) :
                    output.value[2][i] \in (48..57) \cup (97..102)
              /\ input.offset = 123 => output.value[2] = <<48, 120, 55, 98>>
              /\ output.text = <<34>> \o output.value[2] \o <<34>>
              /\ output.back = [ok |-> TRUE, val |-> input.offset]

\* The offset 123 was written as "0x7b" and read back as 123.
C15_Witness ==
    /\ pc = "offset_done"
    /\ input.op = "serialize"
    /\ input.offset = 123
    /\ output.text = <<34, 48, 120, 55, 98, 34>>
    /\ output.back = [ok |-> TRUE, val |-> 123]

\* The values no u64 stands for: a negative number, a fraction, an integer
\* of 2^64 or more, and a string that is not hexadecimal or is beyond 64 bits.
NotAnOffset ==
    {NegInt(1), NegInt(123), Float(<<"1", ".", "5">>), Float(<<"2", ".", "0">>),
     Float(<<"1", "8", "4", "4", "6", "7", "4", "4", "0", "7", "3", "7", "0", "9",
             "5", "5", "1", "6", "1", "6">>)}
    \cup {String(Str(t)) :
            t \in {<<>>, <<"0", "x">>, <<"0", "x", "7", "g">>, <<"1", "2", " ">>, <<"-", "1">>,
                   <<"0", "x", "1", "0", "0", "0", "0", "0", "0", "0", "0",
                     "0", "0", "0", "0", "0", "0", "0", "0">>,
                   <<"0", "x", "0", "0", "f", "f", "f", "f", "f", "f", "f", "f",
                     "f", "f", "f", "f", "f", "f", "f", "f", "f">>}}

\* C20: reading an EntryPointOffset from a value that no u64 stands for fails,
\* gives no offset, and the error carries the string or the number that was
\* refused.
C20_ErrorCarriesOffendingValue ==
    (pc = "offset_done" /\ input.op = "deserialize" /\ input.value \in NotAnOffset) =>
        /\ ~output.ok
        /\ "val" \notin DOMAIN output
        /\ input.value[2] \in Range(output.err.carried)

\* The number -1 was refused, with a message that does not say what was
\* refused.
C20_Witness ==
    /\ pc = "offset_done"
    /\ input.op = "deserialize"
    /\ input.value = <<"number", -1>>
    /\ output = [ok |-> FALSE,
                 err |-> [message |-> "Cannot cast number to usize.", carried |-> <<>>]]

\* Every value that no u64 stands for is refused and gives no offset.
C20_NoOffsetProduced ==
    (pc = "offset_done" /\ input.op = "deserialize" /\ input.value \in NotAnOffset) =>
        /\ ~output.ok
        /\ "val" \notin DOMAIN output

\* The literals of the interchange format, as ASCII codes: PENDING,
\* ACCEPTED_ON_L2, ACCEPTED_ON_L1, REJECTED; CONSTRUCTOR, EXTERNAL, L1_HANDLER
\* for both EntryPointTypes; view.
FixedLiterals ==
    {
     <<"BlockStatus", "Pending", <<80, 69, 78, 68, 73, 78, 71>>>>,
     <<"BlockStatus", "AcceptedOnL2", <<65, 67, 67, 69, 80, 84, 69, 68, 95, 79, 78, 95, 76, 50>>>>,
     <<"BlockStatus", "AcceptedOnL1", <<65, 67, 67, 69, 80, 84, 69, 68, 95, 79, 78, 95, 76, 49>>>>,
     <<"BlockStatus", "Rejected", <<82, 69, 74, 69, 67, 84, 69, 68>>>>,
     <<"EntryPointType", "Constructor", <<67, 79, 78, 83, 84, 82, 85, 67, 84, 79, 82>>>>,
     <<"EntryPointType", "External", <<69, 88, 84, 69, 82, 78, 65, 76>>>>,
     <<"EntryPointType", "L1Handler", <<76, 49, 95, 72, 65, 78, 68, 76, 69, 82>>>>,
     <<"deprecated EntryPointType", "Constructor", <<67, 79, 78, 83, 84, 82, 85, 67, 84, 79, 82>>>>,
     <<"deprecated EntryPointType", "External", <<69, 88, 84, 69, 82, 78, 65, 76>>>>,
     <<"deprecated EntryPointType", "L1Handler", <<76, 49, 95, 72, 65, 78, 68, 76, 69, 82>>>>,
     <<"FunctionStateMutability", "View", <<118, 105, 101, 119>>>>
    }

Increasing(m) == \A i \in 1..(Len(m) - 1) : m[i][1] < m[i + 1][1]

\* The four address-keyed maps of a StateDiff or of a ThinStateDiff.
AddressesIncreasing(t) ==
    /\ Increasing(t.deployed_contracts)
    /\ Increasing(t.storage_diffs)
    /\ Increasing(t.nonces)
    /\ Increasing(t.replaced_classes)

\* C17: every ThinStateDiff there is has strictly increasing addresses in each
\* of its address-keyed maps: the one reduced from a StateDiff whose addresses
\* increase, and with it any ThinStateDiff that decode returns, since a
\* ThinStateDiff is made by reducing a StateDiff and in no other way.
C17_ThinOnlyFromReduction ==
    /\ (pc \in {"reduced", "converted"} /\ AddressesIncreasing(diff)) =>
          AddressesIncreasing(thin)
    /\ (pc = "decoded" /\ decoded.ok /\ AddressesIncreasing(diff)) =>
          AddressesIncreasing(decoded.val)
    /\ (pc = "wire_decoded" /\ output.ok) => AddressesIncreasing(output.val)

\* decode returned a ThinStateDiff that no StateDiff was reduced to, with the
\* address 2 before the address 1.
C17_Witness ==
    /\ pc = "wire_decoded"
    /\ diff = EmptyStateDiff
    /\ output.ok
    /\ Keys(output.val.deployed_contracts) = <<2, 1>>

\* The bytes p stand somewhere in the bytes bs, one after the other.
Occurs(p, bs) ==
    \E k \in 0..(Len(bs) - Len(p)) : SubSeq(bs, k + 1, k + Len(p)) = p

\* An entry-point table in the tag and sequence scheme: the number of types,
\* and for each its tag byte and the sequence of its entry points, a legacy
\* entry point being its selector and its offset (a u64).
TagSequenceTable(m) ==
    CompactLen32(Len(m))
    \o Concat([i \in 1..Len(m) |->
                  <<m[i][1]>>
                  \o CompactLen32(Len(m[i][2]))
                  \o Concat([j \in 1..Len(m[i][2]) |->
                                EncodeFelt(m[i][2][j][1]) \o EncodeU64(m[i][2][j][2])])])

\* C18: in the bytes of a deprecated ContractClass the program stands as an
\* opaque blob, the compact length and the JSON text of the program alone,
\* and the entry-point table stands in the tag and sequence scheme of the
\* current generation, in iteration order.
C18_LegacyOnlyProgramIsJson ==
    pc = "legacy_encoded" =>
        /\ Occurs(ProgramEncode(legacy.program, preserve_order), encoded)
        /\ Occurs(TagSequenceTable(legacy.entry_points_by_type), encoded)

\* The bytes of a deprecated ContractClass with entry points of two types are
\* one String and no more, and its text starts with {"abi": the whole class
\* is JSON.
C18_Witness ==
    /\ pc = "legacy_encoded"
    /\ Len(legacy.entry_points_by_type) = 2
    /\ DecodeString(encoded).ok
    /\ DecodeString(encoded).rest = <<>>
    /\ SubSeq(DecodeString(encoded).val, 1, 7) = <<123, 34, 97, 98, 105, 34, 58>>

\* The error that names the entity whose JSON did not parse.
ErrorNaming(entity) ==
    CASE entity = "Program" -> Err("serde_json deserialization error for Program")
      [] entity = "ContractClass" -> Err("serde_json deserialization error for ContractClass")
      [] entity = "StateDiff" -> Err("serde_json deserialization error for StateDiff")

\* The String was read and its text did not parse into the entity.
JsonFailed == pc = "json_decoded" /\ DecodeString(input.bytes).ok /\ ~output.ok

\* C19: when the JSON text of a payload does not parse, the decode fails
\* with an error that names the entity being decoded (Program, ContractClass
\* or StateDiff), and no value is returned.
C19_JsonFailureNamesEntity ==
    JsonFailed => output = ErrorNaming(input.entity)

\* StateDiff::decode of the String "{" has failed, and its error is the one
\* of ContractClass.
C19_Witness ==
    /\ JsonFailed
    /\ input.entity = "StateDiff"
    /\ input.bytes = EncodeString(Str(<<"{">>))
    /\ output = Err(StateDiffJsonError)
    /\ output = ErrorNaming("ContractClass")

\* The fields of a decoded value of the entity.
FieldsOf(entity) ==
    IF entity = "ThinStateDiff"
    THEN {"deployed_contracts", "storage_diffs", "declared_classes",
          "deprecated_declared_classes", "nonces", "replaced_classes"}
    ELSE {"sierra_program", "entry_points_by_type", "abi"}

\* C21: decoding a ThinStateDiff or a ContractClass is all-or-nothing.
\* Bytes cut short at any point, bytes whose length prefix announces more
\* elements than remain, and bytes with an invalid mode-3 width give an
\* error that holds no value; Ok comes only with all six sequences (all
\* three fields) read, and whole bytes do give Ok.
C21_DecodeAllOrNothing ==
    pc = "bytes_decoded" =>
        /\ input.kind \in {"cut", "long", "width"} =>
              ~output.ok /\ DOMAIN output = {"ok"}
        /\ output.ok =>
              /\ DOMAIN output.val = FieldsOf(input.entity)
              /\ output.rest = <<>>
        /\ input.kind = "whole" => output.ok

\* A ThinStateDiff cut inside its fifth sequence has been refused.
C21_Witness ==
    /\ pc = "bytes_decoded"
    /\ ~output.ok
    /\ DOMAIN output = {"ok"}
    /\ input.entity = "ThinStateDiff"
    /\ input.kind = "cut"
    /\ Len(input.bytes) = Len(ThinEncode(WholeThin)) - 70

\* The calls of the run that have returned.
Returned == {i \in 1..Len(output) : Len(output[i]) = 3}

\* The calls that had returned before call i took its first step do not
\* matter: two calls on the same StateDiff return the same.
SameAsFirstCall ==
    \A i, j \in Returned : input.diffs[i] = input.diffs[j] => output[i] = output[j]

\* Each call emits every class hash its StateDiff declares, with the
\* compiled hash in the thin diff and the body in its own side table,
\* whatever the other calls have emitted.
EachCallEmits ==
    \A i \in Returned :
        LET d == input.diffs[i].declared_classes
        IN /\ Keys(output[i][1].declared_classes) = Keys(d)
           /\ Keys(output[i][2]) = Keys(d)
           /\ \A k \in 1..Len(d) :
                 /\ output[i][1].declared_classes[k][2] = d[k][2][1]
                 /\ output[i][2][k][2] = d[k][2][2]
           /\ output[i][3] = input.diffs[i].deprecated_declared_classes
           /\ output[i][1].deprecated_declared_classes =
                 Keys(input.diffs[i].deprecated_declared_classes)
           /\ \A f \in {"deployed_contracts", "storage_diffs", "nonces", "replaced_classes"} :
                 output[i][1][f] = input.diffs[i][f]

FirstPlace(pairs, k) == CHOOSE i \in 1..Len(pairs) :
                            pairs[i][1] = k /\ \A j \in 1..(i - 1) : pairs[j][1] # k
LastPlace(pairs, k) == CHOOSE i \in 1..Len(pairs) :
                           pairs[i][1] = k /\ \A j \in (i + 1)..Len(pairs) : pairs[j][1] # k

\* The map m holds each key of the pairs once, in the order of the first
\* places of the keys.
KeptOnce(pairs, m) ==
    /\ KeySet(m) = KeySet(pairs)
    /\ Len(m) = Cardinality(KeySet(pairs))
    /\ \A i, j \in 1..Len(m) :
          i < j => FirstPlace(pairs, m[i][1]) < FirstPlace(pairs, m[j][1])

\* ... and each key with the value of its last place.
KeptLast(pairs, m) ==
    /\ KeptOnce(pairs, m)
    /\ \A i \in 1..Len(m) : m[i][2] = pairs[LastPlace(pairs, m[i][1])][2]

\* The same for storage_diffs, whose values are sequences read into maps.
KeptLastStorage(pairs, m) ==
    /\ KeptOnce(pairs, m)
    /\ \A i \in 1..Len(m) : KeptLast(pairs[LastPlace(pairs, m[i][1])][2], m[i][2])

\* The sequences of the bytes as they stand, before they become maps.
SequencesRead ==
    IF input.entity = "ThinStateDiff"
    THEN Decode(ThinTupleT, input.bytes).val
    ELSE Decode(ClassTupleT, input.bytes).val

\* C23: bytes in which a map sequence holds a key more than once decode
\* with success into a map that holds the key once, at the place of its
\* first occurrence and with the value of its last; the map is shorter
\* than the length announced and its encoding is not the bytes given.  The
\* list deprecated_declared_classes keeps its repeated elements.
C23_RepeatedKeyFirstPlaceLastValue ==
    (pc = "bytes_decoded" /\ input.kind = "repeated") =>
        /\ output.ok
        /\ IF input.entity = "ThinStateDiff"
           THEN /\ KeptLast(SequencesRead[1], output.val.deployed_contracts)
                /\ KeptLastStorage(SequencesRead[2], output.val.storage_diffs)
                /\ KeptLast(SequencesRead[3], output.val.declared_classes)
                /\ output.val.deprecated_declared_classes = SequencesRead[4]
                /\ KeptLast(SequencesRead[5], output.val.nonces)
                /\ KeptLast(SequencesRead[6], output.val.replaced_classes)
                /\ Entries(output.val) < Entries([output.val EXCEPT
                                                    !.deployed_contracts = SequencesRead[1],
                                                    !.storage_diffs = SequencesRead[2],
                                                    !.declared_classes = SequencesRead[3],
                                                    !.nonces = SequencesRead[5],
                                                    !.replaced_classes = SequencesRead[6]])
                /\ ThinEncode(output.val) # input.bytes
           ELSE /\ KeptLast(SequencesRead[2], output.val.entry_points_by_type)
                /\ Len(output.val.entry_points_by_type) < Len(SequencesRead[2])
                /\ ClassEncode(output.val) # input.bytes

\* The ThinStateDiff read from bytes where the address 1 is deployed twice
\* and the address 3 has two storage sequences: 1 stays first with the
\* class hash 7, and 3 stays first with the keys of its second sequence.
C23_Witness ==
    /\ pc = "bytes_decoded"
    /\ input.kind = "repeated"
    /\ input.entity = "ThinStateDiff"
    /\ output.ok
    /\ output.val.deployed_contracts = << <<1, 7>>, <<2, 6>> >>
    /\ output.val.storage_diffs = << <<3, << <<2, 2>> >> >>, <<4, <<>> >> >>
    /\ output.val.declared_classes = << <<4, 7>> >>

\* The string with one more "0x" before it.
Prefixed(text) == <<48, 120>> \o text

\* The string given to the call: the JSON string of a deserialize, the
\* String of a try_from.
OffsetString ==
    IF input.op = "try_from" THEN input.value ELSE input.value[2]

\* The call was given a string.
GivenString ==
    /\ pc = "offset_done"
    /\ \/ input.op = "try_from"
       \/ input.op = "deserialize" /\ input.value[1] = "string"

\* What the same call returns for another string.
Returns(text) ==
    IF input.op = "try_from"
    THEN EntryPointOffsetTryFrom(text)
    ELSE number_or_string(String(text))

\* C24: a string offset is read as hexadecimal with or without the prefix.
\* Every leading "0x" is dropped: "7b", "0x7b" and "0x0x7b" give 123 and
\* "10" gives 16, and a string gives what it gives with one more "0x"
\* before it.  The empty string and "0x" are refused, and so is a JSON
\* value that is neither a number nor a string.
C24_StringOffsetIsHex ==
    /\ GivenString =>
          /\ OffsetString \in {Str(<<"7", "b">>), Str(<<"0", "x", "7", "b">>),
                                Str(<<"0", "x", "0", "x", "7", "b">>)}
                => output = Good(123)
          /\ OffsetString \in {Str(<<"1", "0">>), Str(<<"0", "x", "1", "0">>),
                                Str(<<"0", "x", "0", "x", "0", "x", "1", "0">>)}
                => output = Good(16)
          /\ OffsetString \in {<<>>, Str(<<"0", "x">>)} => ~output.ok
          /\ Returns(Prefixed(OffsetString)) = output
          /\ Returns(Prefixed(Prefixed(OffsetString))) = output
    /\ (pc = "offset_done" /\ input.op = "deserialize"
          /\ input.value[1] \in {"null", "bool", "array", "object"})
          => ~output.ok /\ DOMAIN output = {"ok", "err"}

\* "0x0x7b" has been read as 123 by try_from.
C24_Witness ==
    /\ GivenString
    /\ input.op = "try_from"
    /\ OffsetString = Str(<<"0", "x", "0", "x", "7", "b">>)
    /\ output = Good(123)

\* y is x + 1 as numbers: some low bytes of x are 255 and are 0 in y, the
\* byte after them is one more in y, and the bytes above are the same.
PlusOne(x, y) ==
    \E c \in 0..(Len(x) - 1) :
        /\ \A i \in 1..c : x[i] = 255 /\ y[i] = 0
        /\ x[c + 1] < 255
        /\ y[c + 1] = x[c + 1] + 1
        /\ \A i \in (c + 2)..Len(x) : y[i] = x[i]

\* C25: BlockNumber navigation.  prev(0) is None and prev(n) is Some(n - 1)
\* for n > 0; next(n) is n + 1 below 2^64 - 1, where the addition
\* overflows; prev(next(n)) is Some(n) below 2^64 - 1; a.iter_up_to(b)
\* yields a, a + 1, ..., b - 1 in this order, without b, and nothing when
\* b <= a.
C25_BlockNumberNavigation ==
    pc = "number_done" =>
        /\ input.op = "prev" =>
              IF input.self = U64Zero
              THEN output = <<>>
              ELSE Len(output) = 1 /\ PlusOne(output[1], input.self)
        /\ input.op = "next" =>
              IF input.self = U64Max
              THEN output.panicked \/ ~PlusOne(input.self, output.value)
              ELSE ~output.panicked /\ PlusOne(input.self, output.value)
        /\ (input.op = "prev_of_next" /\ input.self # U64Max) =>
              ~output.panicked /\ output.value = <<input.self>>
        /\ input.op = "iter_up_to" =>
              IF input.arg = input.self \/ \E k \in 1..Len(U64Ordered) :
                     /\ U64Ordered[k] = input.arg
                     /\ \E j \in (k + 1)..Len(U64Ordered) : U64Ordered[j] = input.self
              THEN output = <<>>
              ELSE /\ Len(output) >= 1
                   /\ output[1] = input.self
                   /\ \A i \in 1..(Len(output) - 1) : PlusOne(output[i], output[i + 1])
                   /\ PlusOne(output[Len(output)], input.arg)
                   /\ \A i \in 1..Len(output) : output[i] # input.arg

\* The range from 2^32 - 1 up to 2^32 + 2 has been iterated: three numbers.
C25_Witness ==
    /\ pc = "number_done"
    /\ input.op = "iter_up_to"
    /\ input.self = <<255, 255, 255, 255, 0, 0, 0, 0>>
    /\ output = << <<255, 255, 255, 255, 0, 0, 0, 0>>,
                   <<0, 0, 0, 0, 1, 0, 0, 0>>,
                   <<1, 0, 0, 0, 1, 0, 0, 0>> >>

\* The place of a number of the runs in their increasing order.
Place(x) == CHOOSE i \in 1..Len(U64Ordered) : U64Ordered[i] = x

\* C26: StateNumber orders the states around the blocks.  Below 2^64 - 1,
\* right_before_block(n) is StateNumber(n) and is before n, and
\* right_after_block(n) is StateNumber(n + 1), is after n and is
\* right_before_block(n.next()).  For every state s and block b,
\* s.is_before(b) holds iff s.0 <= b, and exactly one of s.is_before(b) and
\* s.is_after(b) holds.
C26_StateNumberOrder ==
    pc = "number_done" =>
        /\ input.op = "right_before_block" =>
              /\ output = input.arg
              /\ is_before(output, input.arg)
              /\ ~is_after(output, input.arg)
        /\ (input.op = "right_after_block" /\ input.arg # U64Max) =>
              /\ ~output.panicked
              /\ PlusOne(input.arg, output.value)
              /\ is_after(output.value, input.arg)
              /\ ~is_before(output.value, input.arg)
              /\ \E r \in next(input.arg) :
                    ~r.panicked /\ output.value = right_before_block(r.value)
        /\ input.op = "is_before" =>
              /\ output = (Place(input.self) <= Place(input.arg))
              /\ output # is_after(input.self, input.arg)
        /\ input.op = "is_after" =>
              /\ output = (Place(input.self) > Place(input.arg))
              /\ output # is_before(input.self, input.arg)

\* The state right after the block 2^32 - 1 is the state 2^32, which is
\* after that block.
C26_Witness ==
    /\ pc = "number_done"
    /\ input.op = "right_after_block"
    /\ input.arg = <<255, 255, 255, 255, 0, 0, 0, 0>>
    /\ output = Returns_(<<0, 0, 0, 0, 1, 0, 0, 0>>)
    /\ is_after(output.value, input.arg)


====
